---------------------------- MODULE Spec2Model ----------------------------
(***************************************************************************)
(* AutoTribune: the news pipeline of ProcessNews/processNews.js (main and  *)
(* the stages it calls) and the publish-article edge function with the     *)
(* articles table it inserts into.                                         *)
(*                                                                         *)
(* Strings whose characters the code inspects (titles, slugs) are          *)
(* sequences of one-character strings.  Texts of which the code reads only *)
(* the length (article bodies, AI summaries) are represented by that       *)
(* length.  The responses of the outside world (feed, pages, AI service,   *)
(* object storage, publish endpoint as seen by the client) are inputs      *)
(* drawn from bounded sets.                                                *)
(***************************************************************************)
EXTENDS Integers, Sequences, FiniteSets, TLC

(***************************************************************************)
(* Bounds of the model.                                                    *)
(***************************************************************************)
\* longest feed (number of <item> elements) the model draws
MaxFeed == 3
\* largest count handed to main
MaxCount == 3
\* most elements one listing-page selector matches
MaxElems == 6
\* requests the publish endpoint serves in one behaviour of SpecPub
MaxReqs == 2
\* the endpoint's clock runs over 0..MaxClock (milliseconds) in SpecPub
MaxClock == 1
\* most elements a selector matches on a page handed to scrapeNDTV alone
MaxScrapeElems == 2
\* longest article list of a run whose termination is checked
MaxLiveArticles == 2
\* most paragraphs of an article page handed to getFullArticle alone
MaxBlocks == 5

(***************************************************************************)
(* Program constants.                                                      *)
(***************************************************************************)
\* articles.slice(0, 5) of scrapeNDTV
ScrapeLimit == 5
\* title.length > 10 of scrapeNDTV
MinScrapeTitle == 10
\* text.length > 50 of getFullArticle
MinParagraphLen == 50
\* paragraphs.length > 3 of getFullArticle
EnoughParagraphs == 3
\* paragraphs.slice(0, 8) of getFullArticle
MaxParagraphs == 8
\* content.length < 50 of rewriteWithGemini
MinRewriteInput == 50
\* MinContentLen as it would be if the Rewriter's own threshold were used
MinContentLenOfRewriter == MinRewriteInput
\* content.length < 100 of getFullArticle and of main
MinContentLen == 100
\* rewrittenContent.length < 100 of rewriteWithGemini
MinRewriteOutput == 100
\* content.length < 5 of rewriteTitle
MinTitleInput == 5
\* newTitle.length < 5 of rewriteTitle
MinTitleOutput == 5
\* summary.length < 50 of generateImage
MinSummaryLen == 50
\* delay(1500) of main
DelayMs == 1500

(***************************************************************************)
(* Strings.                                                                *)
(***************************************************************************)
Lower == {"a", "b", "c", "d", "e", "f", "g", "h", "i", "j", "k", "l", "m",
          "n", "o", "p", "q", "r", "s", "t", "u", "v", "w", "x", "y", "z"}
Digit == {"0", "1", "2", "3", "4", "5", "6", "7", "8", "9"}
Space == {" "}

\* String.prototype.toLowerCase on one character (the capitals the model uses)
LowerChar(c) ==
  CASE c = "A" -> "a" [] c = "B" -> "b" [] c = "F" -> "f" [] c = "N" -> "n"
    [] OTHER -> c

ToLowerCase(s) == [k \in 1..Len(s) |-> LowerChar(s[k])]

\* s.replace(/[^...]/g, '') : drop every character outside keep
RECURSIVE RemoveOutside(_, _)
RemoveOutside(s, keep) ==
  IF s = <<>> THEN <<>>
  ELSE IF Head(s) \in keep THEN <<Head(s)>> \o RemoveOutside(Tail(s), keep)
       ELSE RemoveOutside(Tail(s), keep)

\* s.replace(/[cls]+/g, '-') : every maximal run of characters of cls becomes "-"
RECURSIVE ReplaceRuns(_, _)
ReplaceRuns(s, cls) ==
  IF s = <<>> THEN <<>>
  ELSE IF Head(s) \in cls
       THEN IF Len(s) > 1 /\ s[2] \in cls
            THEN ReplaceRuns(Tail(s), cls)
            ELSE <<"-">> \o ReplaceRuns(Tail(s), cls)
       ELSE <<Head(s)>> \o ReplaceRuns(Tail(s), cls)

\* String.prototype.trim
RECURSIVE TrimLeft(_)
TrimLeft(s) ==
  IF s # <<>> /\ Head(s) \in Space THEN TrimLeft(Tail(s)) ELSE s

RECURSIVE TrimRight(_)
TrimRight(s) ==
  IF s # <<>> /\ s[Len(s)] \in Space THEN TrimRight(SubSeq(s, 1, Len(s) - 1)) ELSE s

Trim(s) == TrimRight(TrimLeft(s))

\* the characters of the model's titles
TitleChars == Lower \cup Digit \cup Space \cup {"A", "B", "F", "N", "-", "!", "?"}

\* decimal digits of a natural number, as `${n}` renders it
DigitOf(d) ==
  CASE d = 0 -> "0" [] d = 1 -> "1" [] d = 2 -> "2" [] d = 3 -> "3"
    [] d = 4 -> "4" [] d = 5 -> "5" [] d = 6 -> "6" [] d = 7 -> "7"
    [] d = 8 -> "8" [] d = 9 -> "9"

RECURSIVE Decimal(_)
Decimal(n) ==
  IF n < 10 THEN <<DigitOf(n)>> ELSE Decimal(n \div 10) \o <<DigitOf(n % 10)>>

(***************************************************************************)
(* slugify of processNews.js: the object-storage key of an image.          *)
(***************************************************************************)
\* .replace(/(^-|-$)+/g, '') after the runs were collapsed: one leading and
\* one trailing "-" go
StripEdgeDashes(s) ==
  LET a == IF s # <<>> /\ Head(s) = "-" THEN Tail(s) ELSE s
  IN  IF a # <<>> /\ a[Len(a)] = "-" THEN SubSeq(a, 1, Len(a) - 1) ELSE a

slugify(text) ==
  IF text = <<>> THEN <<"d", "e", "f", "a", "u", "l", "t", "-", "s", "l", "u", "g">>
  ELSE StripEdgeDashes(
         ReplaceRuns(ToLowerCase(text), TitleChars \ (Lower \cup Digit)))

(***************************************************************************)
(* generateSlug of the publish-article function.                           *)
(***************************************************************************)
generateSlug(title) ==
  Trim(ReplaceRuns(
         ReplaceRuns(
           RemoveOutside(ToLowerCase(title), Lower \cup Digit \cup Space \cup {"-"}),
           Space),
         {"-"}))

\* `${baseSlug}-${Date.now()}`
MakeSlug(title, ms) == generateSlug(title) \o <<"-">> \o Decimal(ms)


(***************************************************************************)
(* The Source Fetcher: scrapeNDTV_RSS and scrapeNDTV.                      *)
(* An article stub is [title |-> length of the title, link |-> tokens].    *)
(* A link is a sequence of tokens; the empty sequence is a missing link.   *)
(***************************************************************************)
Origin == "https://www.ndtv.com"

PathTok(k) ==
  CASE k = 1 -> "/1" [] k = 2 -> "/2" [] k = 3 -> "/3" [] k = 4 -> "/4"
    [] k = 5 -> "/5" [] k = 6 -> "/6" [] k = 7 -> "/7" [] OTHER -> "/8"

\* the first tokens whose text begins with the four characters "http": the
\* origins, and a relative file name such as httpd-guide.html
OtherOrigin == "http://other.example"
HttpPrefixed == {Origin, OtherOrigin, "httpd-guide.html"}

\* link.startsWith("http")
StartsWithHttp(link) == link # <<>> /\ link[1] \in HttpPrefixed

\* a feed <item>: title length (0: no title) and link (<<>>: no link)
FeedItems ==
  { [title |-> 20, link |-> <<Origin, "/feed">>],
    [title |-> 3,  link |-> <<Origin, "/feed">>],
    [title |-> 0,  link |-> <<Origin, "/feed">>],
    [title |-> 20, link |-> <<>>] }

SeqsUpTo(S, n) == UNION { [1..k -> S] : k \in 0..n }

\* what the feed URL answers: an error, or a parsed document with its items
\* (items = "none": no rss.channel[0].item in the document)
FeedErrors == {"timeout", "network", "empty", "malformed", "noitems"}
Feeds ==
  [err : FeedErrors, items : {<<>>}]
    \cup [err : {"none"}, items : SeqsUpTo(FeedItems, MaxFeed)]

\* items.slice(0, count)
Slice(s, from, to) ==
  LET n == Len(s)
      norm(x) == IF x < 0 THEN (IF n + x < 0 THEN 0 ELSE n + x)
                 ELSE (IF x > n THEN n ELSE x)
      a == norm(from)
      b == norm(to)
  IN  IF a >= b THEN <<>> ELSE SubSeq(s, a + 1, b)

\* .filter(Boolean) after the map: the items with a title and a link
RECURSIVE FilterItems(_)
FilterItems(items) ==
  IF items = <<>> THEN <<>>
  ELSE IF Head(items).title = 0 \/ Head(items).link = <<>>
       THEN FilterItems(Tail(items))
       ELSE <<Head(items)>> \o FilterItems(Tail(items))

scrapeNDTV_RSS(feed, cnt) ==
  IF feed.err # "none" THEN <<>>
  ELSE FilterItems(Slice(feed.items, 0, cnt))

\* the selectors of scrapeNDTV, in priority order
NumSelectors == 6

\* an element a selector matches: the title text and the href the a-element
\* chains of lines 122-132 yield
ListingElem(tlen, href) == [tlen |-> tlen, href |-> href]

\* lines 134-140: prefix a relative link, keep the element if it is valid
RECURSIVE CollectElems(_)
CollectElems(els) ==
  IF els = <<>> THEN <<>>
  ELSE LET el   == Head(els)
           link == IF el.href # <<>> /\ ~StartsWithHttp(el.href)
                   THEN <<Origin>> \o el.href ELSE el.href
       IN  IF el.tlen > 0 /\ link # <<>> /\ el.tlen > MinScrapeTitle
           THEN <<[title |-> el.tlen, link |-> link]>> \o CollectElems(Tail(els))
           ELSE CollectElems(Tail(els))

\* ScrapeFrom as it would be if the selectors were tried from the last to the
\* first
RECURSIVE ScrapeFromReversed(_, _)
ScrapeFromReversed(page, s) ==
  IF s > NumSelectors THEN <<>>
  ELSE LET articles == CollectElems(page.sel[NumSelectors + 1 - s])
       IN  IF Len(articles) > 0 THEN Slice(articles, 0, ScrapeLimit)
           ELSE ScrapeFromReversed(page, s + 1)

RECURSIVE ScrapeFrom(_, _)
ScrapeFrom(page, s) ==
  IF s > NumSelectors THEN <<>>
  ELSE LET articles == CollectElems(page.sel[s])
       IN  IF Len(articles) > 0 THEN Slice(articles, 0, ScrapeLimit)
           ELSE ScrapeFrom(page, s + 1)

scrapeNDTV(page) ==
  IF page.err # "none" THEN <<>> ELSE ScrapeFrom(page, 1)

\* a listing page: selector 1 matches one element whose title is too short,
\* selector 2 matches n story elements (relative and absolute links in turn),
\* every later selector matches m elements
ListingPage(n, m) ==
  [err |-> "none",
   sel |-> [s \in 1..NumSelectors |->
              IF s = 1 THEN <<ListingElem(4, <<"/nav">>)>>
              ELSE IF s = 2
                   THEN [k \in 1..n |->
                           ListingElem(30, IF k % 2 = 1 THEN <<PathTok(k)>>
                                           ELSE <<Origin, PathTok(k)>>)]
                   ELSE [k \in 1..m |-> ListingElem(25, <<"/other">>)]]]

\* the href attributes an a-element can carry: none, a path, a URL of this
\* or another site, a relative file name, a script pseudo-link
Hrefs ==
  { <<>>, <<"/story">>, <<Origin, "/story">>, <<OtherOrigin, "/story">>,
    <<"httpd-guide.html">>, <<"javascript:void(0)">> }

\* the lengths of the trimmed title text: none, 10 and 11 characters
TitleLens == {0, MinScrapeTitle, MinScrapeTitle + 1}

ListingErrors == {"timeout", "network", "empty"}
ListingPages ==
  [err : ListingErrors, sel : {<<>>}]
    \cup { ListingPage(n, m) : n \in 0..MaxElems, m \in 0..1 }

(***************************************************************************)
(* The Content Extractor: getFullArticle.                                  *)
(* An article page is an error or, per content selector, the text blocks   *)
(* it matches: [id, len, boiler] (boiler: the block holds a copyright      *)
(* notice).  The extracted content is the sequence of the joined blocks;   *)
(* the empty sequence is the empty string.                                 *)
(***************************************************************************)
NumContentSelectors == 6

Block(id, len, boiler) == [id |-> id, len |-> len, boiler |-> boiler]

\* lines 199-204: the blocks of one selector that qualify, in document order
RECURSIVE Qualifying(_)
Qualifying(blocks) ==
  IF blocks = <<>> THEN <<>>
  ELSE IF Head(blocks).len > MinParagraphLen /\ ~Head(blocks).boiler
       THEN <<Head(blocks)>> \o Qualifying(Tail(blocks))
       ELSE Qualifying(Tail(blocks))

\* lines 197-211: paragraphs is declared once, before the loop over selectors
RECURSIVE CollectParagraphs(_, _, _)
CollectParagraphs(page, s, paragraphs) ==
  IF s > NumContentSelectors THEN paragraphs
  ELSE LET ps == paragraphs \o Qualifying(page.sel[s])
       IN  IF Len(ps) > EnoughParagraphs THEN ps
           ELSE CollectParagraphs(page, s + 1, ps)

\* paragraphs.join("\n\n").length
RECURSIVE SumLen(_)
SumLen(ps) == IF ps = <<>> THEN 0 ELSE Head(ps).len + SumLen(Tail(ps))

StrLen(content) ==
  IF content = <<>> THEN 0 ELSE SumLen(content) + 2 * (Len(content) - 1)

\* lines 185-213: the text the page yields, before it is measured
JoinedParagraphs(link, page) ==
  IF link = <<>> \/ page.err # "none" THEN <<>>
  ELSE Slice(CollectParagraphs(page, 1, <<>>), 0, MaxParagraphs)

getFullArticle(link, page) ==
  IF link = <<>> THEN <<>>
  ELSE IF page.err # "none" THEN <<>>
  ELSE LET content == JoinedParagraphs(link, page)
       IN  IF StrLen(content) < MinContentLen THEN <<>> ELSE content

\* line 536: !content || content.length < 100
ContentUnusable(content) == content = <<>> \/ StrLen(content) < MinContentLen

PageWith(first, second, last) ==
  [err |-> "none",
   sel |-> [s \in 1..NumContentSelectors |->
              IF s = 1 THEN first
              ELSE IF s = 2 THEN second
              ELSE IF s = NumContentSelectors THEN last ELSE <<>>]]

ArticlePageErrors == {"timeout", "network", "empty"}

\* the article pages the model draws
ArticlePages ==
  [err : ArticlePageErrors, sel : {<<>>}]
    \cup { \* four story paragraphs under the first selector
           PageWith(<<Block(1, 60, FALSE), Block(2, 60, FALSE),
                      Block(3, 60, FALSE), Block(4, 60, FALSE)>>, <<>>, <<>>),
           \* one paragraph of 99 characters and a copyright line
           PageWith(<<>>, <<>>, <<Block(1, 99, FALSE), Block(2, 70, TRUE)>>),
           \* a single long paragraph
           PageWith(<<>>, <<>>, <<Block(1, 100, FALSE)>>),
           \* only fragments
           PageWith(<<>>, <<>>, <<Block(1, 50, FALSE), Block(2, 12, FALSE)>>),
           \* two story paragraphs, matched again by the catch-all selector
           PageWith(<<>>, <<Block(1, 60, FALSE), Block(2, 60, FALSE)>>,
                    <<Block(1, 60, FALSE), Block(2, 60, FALSE), Block(3, 80, FALSE)>>) }

(***************************************************************************)
(* The Rewriter: rewriteWithGemini and rewriteTitle.                       *)
(* A reply of the AI text endpoint is [err, text]; err = "none" is a 2xx   *)
(* answer whose text field holds text (length 0 / <<>>: no text field).    *)
(* A stage result is [ok, val, called]: ok = FALSE is a thrown error,      *)
(* called tells whether the external call was made.                        *)
(***************************************************************************)
Thrown(called) == [ok |-> FALSE, called |-> called, resp |-> "error"]
Returned(v) == [ok |-> TRUE, val |-> v, called |-> TRUE, resp |-> "ok"]
\* the same result, with what the outside answered
Because(res, why) == [res EXCEPT !.resp = why]

AiErrors == {"timeout", "http429", "http403", "other"}

\* replies to the body rewrite: the length of the returned text
BodyReplies ==
  [err : AiErrors, text : {0}] \cup [err : {"none"}, text : {0, 99, 100}]

\* rewriteWithGemini as it would be without the test of lines 238-240
rewriteWithGeminiAnyInput(key, content, reply) ==
  IF ~key THEN Thrown(FALSE)
  ELSE IF reply.err # "none" THEN Thrown(TRUE)
  ELSE IF reply.text = 0 THEN Thrown(TRUE)
  ELSE IF reply.text < MinRewriteOutput THEN Thrown(TRUE)
  ELSE Returned(reply.text)

rewriteWithGemini(key, content, reply) ==
  IF ~key THEN Thrown(FALSE)
  ELSE IF content = <<>> \/ StrLen(content) < MinRewriteInput THEN Thrown(FALSE)
  ELSE IF reply.err # "none" THEN Thrown(TRUE)
  ELSE IF reply.text = 0 THEN Thrown(TRUE)
  ELSE IF reply.text < MinRewriteOutput THEN Thrown(TRUE)
  ELSE Returned(reply.text)

tFloodAlert == <<" ", "F", "l", "o", "o", "d", " ", "A", "l", "e", "r", "t", " ">>
tFloodAlertBang == <<"F", "l", "o", "o", "d", " ", "A", "l", "e", "r", "t", "!">>
tShort == <<" ", " ", "a", "b", " ", " ">>
tSymbols == <<"?", "!", "?", "!", "?", "!">>

\* replies to the title rewrite
TitleReplies ==
  [err : AiErrors, text : {<<>>}]
    \cup [err : {"none"}, text : {<<>>, tShort, tSymbols, tFloodAlert}]

rewriteTitle(key, titleLen, reply) ==
  IF ~key THEN Thrown(FALSE)
  ELSE IF titleLen = 0 \/ titleLen < MinTitleInput THEN Thrown(FALSE)
  ELSE IF reply.err # "none" THEN Thrown(TRUE)
  ELSE IF reply.text = <<>> THEN Thrown(TRUE)
  ELSE IF Len(Trim(reply.text)) < MinTitleOutput THEN Thrown(TRUE)
  ELSE Returned(Trim(reply.text))

(***************************************************************************)
(* The Image Generator: generateImage with its nested uploadToSupaBase.    *)
(* The bucket is a set of objects [key, by]: by is the article whose       *)
(* image the object holds.  A reply is [gen, upload, url].                 *)
(***************************************************************************)
ImageReplies ==
  [gen : {"error", "noparts", "textonly", "nodata"}, upload : {"none"}, url : {"none"}]
    \cup [gen : {"image"}, upload : {"error"}, url : {"none"}]
    \cup [gen : {"image"}, upload : {"ok"}, url : {"ok", "error", "missing"}]

ObjectKey(imageName) == imageName \o <<".png">>

\* storage.upload(key, buffer, {upsert: true})
Upsert(bkt, key, by) ==
  { o \in bkt : o.key # key } \cup { [key |-> key, by |-> by] }

SignedUrl(key) == <<"signed:">> \o key

\* generateImage as it would be without the check of line 374
generateImageNoUrlCheck(key, summaryLen, imageName, reply, bkt, by) ==
  IF ~key THEN [res |-> Thrown(FALSE), bucket |-> bkt]
  ELSE IF summaryLen = 0 \/ summaryLen < MinSummaryLen
       THEN [res |-> Thrown(FALSE), bucket |-> bkt]
  ELSE IF imageName = <<>> THEN [res |-> Thrown(FALSE), bucket |-> bkt]
  ELSE IF reply.gen # "image" THEN [res |-> Thrown(TRUE), bucket |-> bkt]
  ELSE IF reply.upload # "ok" THEN [res |-> Thrown(TRUE), bucket |-> bkt]
  ELSE LET stored == Upsert(bkt, ObjectKey(imageName), by)
       IN  IF reply.url = "error" THEN [res |-> Thrown(TRUE), bucket |-> stored]
           ELSE IF reply.url = "missing"
                THEN [res |-> Returned(<<>>), bucket |-> stored]
                ELSE [res |-> Returned(SignedUrl(ObjectKey(imageName))),
                      bucket |-> stored]

\* the result and the bucket the call leaves
\* generateImage as it would be if the error of the storage upload (line 362)
\* were not tested
generateImageIgnoreUploadError(key, summaryLen, imageName, reply, bkt, by) ==
  IF ~key THEN [res |-> Thrown(FALSE), bucket |-> bkt]
  ELSE IF summaryLen = 0 \/ summaryLen < MinSummaryLen
       THEN [res |-> Thrown(FALSE), bucket |-> bkt]
  ELSE IF imageName = <<>> THEN [res |-> Thrown(FALSE), bucket |-> bkt]
  ELSE IF reply.gen # "image"
       THEN [res |-> Because(Thrown(TRUE), reply.gen), bucket |-> bkt]
  ELSE IF reply.upload # "ok"
       THEN [res |-> Because(Returned(SignedUrl(ObjectKey(imageName))), "uploadfail"),
             bucket |-> bkt]
  ELSE LET stored == Upsert(bkt, ObjectKey(imageName), by)
       IN  IF reply.url # "ok"
           THEN [res |-> Because(Thrown(TRUE), IF reply.url = "error" THEN "urlfail"
                                               ELSE "nourl"),
                 bucket |-> stored]
           ELSE [res |-> Returned(SignedUrl(ObjectKey(imageName))), bucket |-> stored]

generateImage(key, summaryLen, imageName, reply, bkt, by) ==
  IF ~key THEN [res |-> Thrown(FALSE), bucket |-> bkt]
  ELSE IF summaryLen = 0 \/ summaryLen < MinSummaryLen
       THEN [res |-> Thrown(FALSE), bucket |-> bkt]
  ELSE IF imageName = <<>> THEN [res |-> Thrown(FALSE), bucket |-> bkt]
  ELSE IF reply.gen # "image"
       THEN [res |-> Because(Thrown(TRUE), reply.gen), bucket |-> bkt]
  ELSE IF reply.upload # "ok"
       THEN [res |-> Because(Thrown(TRUE), "uploadfail"), bucket |-> bkt]
  ELSE LET stored == Upsert(bkt, ObjectKey(imageName), by)
       IN  IF reply.url # "ok"
           THEN [res |-> Because(Thrown(TRUE), IF reply.url = "error" THEN "urlfail"
                                               ELSE "nourl"),
                 bucket |-> stored]
           ELSE [res |-> Returned(SignedUrl(ObjectKey(imageName))), bucket |-> stored]

(***************************************************************************)
(* The publish-article function and the articles table.                    *)
(* A request is [method, title, text, image_link]; text is a length, 0 for *)
(* a missing or empty text; <<>> is a missing title or image link.         *)
(* A row is [title, content, image_url, slug].                             *)
(***************************************************************************)
Slugs(rows) == { rows[k].slug : k \in 1..Len(rows) }

\* InsertArticle as it would be on a table without the unique index
InsertNoIndex(rows, row, up) ==
  IF ~up THEN [error |-> TRUE, rows |-> rows]
  ELSE [error |-> FALSE, rows |-> Append(rows, row)]

\* the INSERT: the unique index idx_articles_slug rejects a slug that a row
\* already has; up = FALSE is an unavailable database
InsertArticle(rows, row, up) ==
  IF ~up THEN [error |-> TRUE, rows |-> rows]
  ELSE IF row.slug \in Slugs(rows) THEN [error |-> TRUE, rows |-> rows]
  ELSE [error |-> FALSE, rows |-> Append(rows, row)]

\* lines 26-34
MissingFields(req) == req.title = <<>> \/ req.text = 0

\* lines 46-57
RowOf(req, ms) ==
  [title |-> req.title, content |-> req.text,
   image_url |-> req.image_link, slug |-> MakeSlug(req.title, ms)]

\* one request served from its first line to its response, at time ms
ServeRequest(req, rows, ms, up) ==
  IF req.method = "OPTIONS" THEN [status |-> 200, success |-> FALSE, rows |-> rows]
  ELSE IF MissingFields(req) THEN [status |-> 400, success |-> FALSE, rows |-> rows]
  ELSE LET ins == InsertArticle(rows, RowOf(req, ms), up)
       IN  IF ins.error THEN [status |-> 500, success |-> FALSE, rows |-> rows]
           ELSE [status |-> 200, success |-> TRUE, rows |-> ins.rows]

(***************************************************************************)
(* The Publisher: uploadToDB.  net is what the network does to the POST:   *)
(* "ok" delivers request and response, "lost" times out before the         *)
(* function runs, "late" times out after it ran, "nosuccess" answers 2xx   *)
(* without the success flag and without reaching the function.             *)
(***************************************************************************)
NetOutcomes == {"ok", "lost", "late", "nosuccess"}

\* uploadToDB as it would be without the test of lines 473-475: a 2xx answer
\* counts as published whatever its body
uploadToDBNoFlagCheck(output, net, rows, ms, up) ==
  IF output.title = <<>> \/ output.text = 0
  THEN [res |-> Thrown(FALSE), rows |-> rows]
  ELSE IF net = "lost" THEN [res |-> Because(Thrown(TRUE), "timeout"), rows |-> rows]
  ELSE IF net = "nosuccess"
       THEN [res |-> Because(Returned(200), "nosuccess"), rows |-> rows]
  ELSE LET req == [method |-> "POST", title |-> output.title, text |-> output.text,
                   image_link |-> output.image]
           r   == ServeRequest(req, rows, ms, up)
       IN  IF net = "late"
           THEN [res |-> Because(Thrown(TRUE), "timeout"), rows |-> r.rows]
           ELSE IF r.status # 200
                THEN [res |-> Because(Thrown(TRUE), "non2xx"), rows |-> r.rows]
                ELSE [res |-> Because(Returned(r.status),
                                      IF r.success THEN "ok" ELSE "nosuccess"),
                      rows |-> r.rows]

uploadToDB(output, net, rows, ms, up) ==
  IF output.title = <<>> \/ output.text = 0
  THEN [res |-> Thrown(FALSE), rows |-> rows]
  ELSE IF net = "lost" THEN [res |-> Because(Thrown(TRUE), "timeout"), rows |-> rows]
  ELSE IF net = "nosuccess"
       THEN [res |-> Because(Thrown(TRUE), "nosuccess"), rows |-> rows]
  ELSE LET req == [method |-> "POST", title |-> output.title, text |-> output.text,
                   image_link |-> output.image]
           r   == ServeRequest(req, rows, ms, up)
       IN  IF net = "late"
           THEN [res |-> Because(Thrown(TRUE), "timeout"), rows |-> r.rows]
           ELSE IF r.status # 200
                THEN [res |-> Because(Thrown(TRUE), "non2xx"), rows |-> r.rows]
                ELSE IF ~r.success
                     THEN [res |-> Because(Thrown(TRUE), "nosuccess"), rows |-> r.rows]
                     ELSE [res |-> Returned(r.status), rows |-> r.rows]

(***************************************************************************)
(* State.                                                                  *)
(***************************************************************************)
VARIABLES
  env,             \* process.env: which of the three settings are present
  count,           \* the argument of main
  pc,              \* where main stands
  exitCode,        \* -1 while the process runs, then its exit status
  articles,        \* main's article list
  i,               \* the loop index, 1-based
  content,         \* locals of one loop iteration
  summary,
  newTitle,
  generatedImage,
  totalProcessed,
  totalSuccessful,
  totalFailed,
  summaryPrinted,  \* the final summary was logged
  now,             \* Date.now() of the publish function, in ms
  store,           \* the rows of public.articles, in insertion order
  bucket,          \* the objects of the storage bucket "images"
  fetches,         \* history: the source calls of the run, [src, n]
  calls,           \* history: the stage calls of the current article, [fn, ok,
                   \* ext, arg, resp]: returned a value, made its external call,
                   \* the length of its input (getFullArticle: of the text it
                   \* found; uploadToDB: the number of fields set)
  publishLog,      \* history: the articles uploadToDB was called for
  storeBy,         \* history: per row of store, the article it was inserted for
  outcome,         \* history: per finished article, "published" or "failed"
  reqs,            \* the requests the publish function is serving (SpecPub)
  fnIn,            \* the input of the function a function-level specification applies
  fnOut,           \* and what the function returned
  ui               \* the state of the reader's list page (SpecUI)

locals == <<content, summary, newTitle, generatedImage>>
counters == <<totalProcessed, totalSuccessful, totalFailed>>
history == <<fetches, calls, publishLog, storeBy, outcome>>
fnio == <<fnIn, fnOut, ui>>
vars == <<env, count, pc, exitCode, articles, i, locals, counters, summaryPrinted,
          now, store, bucket, history, reqs, fnio>>

Running == exitCode = -1

Envs == [supabaseUrl : BOOLEAN, supabaseKey : BOOLEAN, geminiKey : BOOLEAN]

Call(fn, res, arg) ==
  [fn |-> fn, ok |-> res.ok, ext |-> res.called, arg |-> arg, resp |-> res.resp]

ResetLocals ==
  /\ content' = <<>>
  /\ summary' = 0
  /\ newTitle' = <<>>
  /\ generatedImage' = <<>>

Init ==
  /\ env \in Envs
  /\ count \in 0..MaxCount
  /\ pc = "init"
  /\ exitCode = -1
  /\ articles = <<>>
  /\ i = 1
  /\ content = <<>>
  /\ summary = 0
  /\ newTitle = <<>>
  /\ generatedImage = <<>>
  /\ totalProcessed = 0
  /\ totalSuccessful = 0
  /\ totalFailed = 0
  /\ summaryPrinted = FALSE
  /\ now = 0
  /\ store = <<>>
  /\ bucket = {}
  /\ fetches = <<>>
  /\ calls = <<>>
  /\ publishLog = <<>>
  /\ storeBy = <<>>
  /\ outcome = <<>>
  /\ reqs = <<>>
  /\ fnIn = <<>>
  /\ fnOut = <<>>
  /\ ui = <<>>

\* process.exit(code)
Exit(code) == pc' = "exit" /\ exitCode' = code

(***************************************************************************)
(* Module initialisation, lines 10-27.                                     *)
(***************************************************************************)
ModuleInit ==
  /\ pc = "init"
  /\ IF ~env.supabaseUrl \/ ~env.supabaseKey
     THEN Exit(1)
     ELSE pc' = "rss" /\ UNCHANGED exitCode
  /\ UNCHANGED <<env, count, articles, i, locals, counters, summaryPrinted,
                 now, store, bucket, history, reqs, fnio>>

(***************************************************************************)
(* main, lines 512-524: the source fetch.                                  *)
(***************************************************************************)
\* NeedsFallback as it would be if a feed of one article counted as empty
NeedsFallbackOffByOne(list) == Len(list) <= 1

\* line 515: !articles.length
NeedsFallback(list) == Len(list) = 0

FetchRSSOf(feeds) ==
  /\ pc = "rss"
  /\ \E feed \in feeds :
       LET list == scrapeNDTV_RSS(feed, count)
       IN  /\ articles' = list
           /\ fetches' = Append(fetches, [src |-> "rss", n |-> Len(list)])
           /\ pc' = IF NeedsFallback(list) THEN "scrape" ELSE "check"
  /\ UNCHANGED <<env, count, exitCode, i, locals, counters, summaryPrinted,
                 now, store, bucket, calls, publishLog, storeBy, outcome, reqs, fnio>>

ScrapeOf(pages) ==
  /\ pc = "scrape"
  /\ \E page \in pages :
       LET list == scrapeNDTV(page)
       IN  /\ articles' = list
           /\ fetches' = Append(fetches, [src |-> "scrape", n |-> Len(list)])
  /\ pc' = "check"
  /\ UNCHANGED <<env, count, exitCode, i, locals, counters, summaryPrinted,
                 now, store, bucket, calls, publishLog, storeBy, outcome, reqs, fnio>>

\* line 513 and line 517, over every answer of the feed and of the listing
\* page the model draws
FetchRSS == FetchRSSOf(Feeds)
Scrape == ScrapeOf(ListingPages)

\* CheckArticles as it would be without the throw of line 521
CheckArticlesNoThrow ==
  /\ pc = "check"
  /\ pc' = "loop"
  /\ UNCHANGED <<env, count, exitCode, articles, i, locals, counters, summaryPrinted,
                 now, store, bucket, history, reqs, fnio>>

\* lines 520-522 with the outer catch of lines 580-583
CheckArticles ==
  /\ pc = "check"
  /\ IF Len(articles) = 0
     THEN Exit(1)
     ELSE pc' = "loop" /\ UNCHANGED exitCode
  /\ UNCHANGED <<env, count, articles, i, locals, counters, summaryPrinted,
                 now, store, bucket, history, reqs, fnio>>

(***************************************************************************)
(* main, lines 526-578: the loop over the articles.                        *)
(***************************************************************************)
\* line 526 and 527: the loop test, and the count of a started iteration
LoopHead ==
  /\ pc = "loop"
  /\ IF i <= Len(articles)
     THEN /\ totalProcessed' = totalProcessed + 1
          /\ calls' = <<>>
          /\ pc' = "extract"
     ELSE /\ pc' = "summary"
          /\ UNCHANGED <<totalProcessed, calls>>
  /\ UNCHANGED <<env, count, exitCode, articles, i, locals, totalSuccessful,
                 totalFailed, summaryPrinted, now, store, bucket, fetches,
                 publishLog, storeBy, outcome, reqs, fnio>>

\* CatchArticle as it would be if the error left the loop: the outer catch
\* of lines 580-583 ends the process
CatchRethrow ==
  /\ totalFailed' = totalFailed + 1
  /\ outcome' = Append(outcome, "failed")
  /\ Exit(1)
  /\ ResetLocals
  /\ UNCHANGED <<i, totalSuccessful>>

\* CatchArticle as it would be if a failed article were tried again
CatchRetry ==
  /\ totalFailed' = totalFailed + 1
  /\ outcome' = outcome
  /\ pc' = "loop"
  /\ ResetLocals
  /\ UNCHANGED <<exitCode, i, totalSuccessful>>

\* lines 565-569: the catch of one iteration; the locals go out of scope
CatchArticle ==
  /\ totalFailed' = totalFailed + 1
  /\ outcome' = Append(outcome, "failed")
  /\ pc' = "ratelimit"
  /\ ResetLocals
  /\ UNCHANGED <<exitCode, i, totalSuccessful>>

\* Extract as it would be without the continue of line 539: the article is
\* counted as failed and goes on to the rewrite
ExtractNoContinue ==
  /\ pc = "extract"
  /\ \E page \in ArticlePages :
       LET c == getFullArticle(articles[i].link, page)
       IN  /\ calls' = Append(calls, Call("getFullArticle",
                                [ok |-> c # <<>>, called |-> TRUE,
                                 resp |-> IF c # <<>> THEN "ok" ELSE "error"],
                                StrLen(JoinedParagraphs(articles[i].link, page))))
           /\ totalFailed' = IF ContentUnusable(c) THEN totalFailed + 1
                              ELSE totalFailed
           /\ content' = c
           /\ pc' = "rewrite"
           /\ UNCHANGED <<outcome, i>>
  /\ UNCHANGED <<env, count, exitCode, articles, summary, newTitle, generatedImage,
                 totalProcessed, totalSuccessful, summaryPrinted, now, store,
                 bucket, fetches, publishLog, storeBy, reqs, fnio>>

\* Extract as it would be if a skipped article were not counted (no
\* totalFailed++ before the continue)
ExtractUncounted ==
  /\ pc = "extract"
  /\ \E page \in ArticlePages :
       LET c == getFullArticle(articles[i].link, page)
       IN  /\ calls' = Append(calls, Call("getFullArticle",
                                [ok |-> c # <<>>, called |-> TRUE,
                                 resp |-> IF c # <<>> THEN "ok" ELSE "error"],
                                StrLen(JoinedParagraphs(articles[i].link, page))))
           /\ IF ContentUnusable(c)
              THEN /\ outcome' = Append(outcome, "failed")
                   /\ i' = i + 1
                   /\ pc' = "loop"
                   /\ UNCHANGED <<content, totalFailed>>
              ELSE /\ content' = c
                   /\ pc' = "rewrite"
                   /\ UNCHANGED <<totalFailed, outcome, i>>
  /\ UNCHANGED <<env, count, exitCode, articles, summary, newTitle, generatedImage,
                 totalProcessed, totalSuccessful, summaryPrinted, now, store,
                 bucket, fetches, publishLog, storeBy, reqs, fnio>>

\* lines 535-540: a short content counts as failed and continues the loop
Extract ==
  /\ pc = "extract"
  /\ \E page \in ArticlePages :
       LET c == getFullArticle(articles[i].link, page)
       IN  /\ calls' = Append(calls, Call("getFullArticle",
                                [ok |-> c # <<>>, called |-> TRUE,
                                 resp |-> IF c # <<>> THEN "ok" ELSE "error"],
                                StrLen(JoinedParagraphs(articles[i].link, page))))
           /\ IF ContentUnusable(c)
              THEN /\ totalFailed' = totalFailed + 1
                   /\ outcome' = Append(outcome, "failed")
                   /\ i' = i + 1
                   /\ pc' = "loop"
                   /\ UNCHANGED content
              ELSE /\ content' = c
                   /\ pc' = "rewrite"
                   /\ UNCHANGED <<totalFailed, outcome, i>>
  /\ UNCHANGED <<env, count, exitCode, articles, summary, newTitle, generatedImage,
                 totalProcessed, totalSuccessful, summaryPrinted, now, store,
                 bucket, fetches, publishLog, storeBy, reqs, fnio>>

\* Rewrite as it would be if a failed rewrite were tried a second time
RewriteRetrying ==
  /\ pc = "rewrite"
  /\ \E reply \in BodyReplies :
       LET r == rewriteWithGemini(env.geminiKey, content, reply)
       IN  /\ calls' = Append(calls, Call("rewriteWithGemini", r, StrLen(content)))
           /\ IF r.ok
              THEN /\ summary' = r.val
                   /\ pc' = "title"
                   /\ UNCHANGED <<content, newTitle, generatedImage, totalFailed,
                                  outcome, exitCode, i, totalSuccessful>>
              ELSE IF Len(calls) < 2
                   THEN UNCHANGED <<pc, locals, totalFailed, outcome, exitCode, i,
                                    totalSuccessful>>
                   ELSE CatchArticle
  /\ UNCHANGED <<env, count, articles, totalProcessed, summaryPrinted, now, store,
                 bucket, fetches, publishLog, storeBy, reqs, fnio>>

\* line 546
Rewrite ==
  /\ pc = "rewrite"
  /\ \E reply \in BodyReplies :
       LET r == rewriteWithGemini(env.geminiKey, content, reply)
       IN  /\ calls' = Append(calls, Call("rewriteWithGemini", r, StrLen(content)))
           /\ IF r.ok
              THEN /\ summary' = r.val
                   /\ pc' = "title"
                   /\ UNCHANGED <<content, newTitle, generatedImage, totalFailed,
                                  outcome, exitCode, i, totalSuccessful>>
              ELSE CatchArticle
  /\ UNCHANGED <<env, count, articles, totalProcessed, summaryPrinted, now, store,
                 bucket, fetches, publishLog, storeBy, reqs, fnio>>

\* line 547
Title ==
  /\ pc = "title"
  /\ \E reply \in TitleReplies :
       LET r == rewriteTitle(env.geminiKey, articles[i].title, reply)
       IN  /\ calls' = Append(calls, Call("rewriteTitle", r, articles[i].title))
           /\ IF r.ok
              THEN /\ newTitle' = r.val
                   /\ pc' = "image"
                   /\ UNCHANGED <<content, summary, generatedImage, totalFailed,
                                  outcome, exitCode, i, totalSuccessful>>
              ELSE CatchArticle
  /\ UNCHANGED <<env, count, articles, totalProcessed, summaryPrinted, now, store,
                 bucket, fetches, publishLog, storeBy, reqs, fnio>>

\* Image as it would be if a failed image only left the article without one
ImageSoftFail ==
  /\ pc = "image"
  /\ \E reply \in ImageReplies :
       LET g == generateImage(env.geminiKey, summary, slugify(newTitle), reply,
                              bucket, i)
       IN  /\ calls' = Append(calls, Call("generateImage", g.res,
                                          Len(slugify(newTitle))))
           /\ bucket' = g.bucket
           /\ generatedImage' = IF g.res.ok THEN g.res.val ELSE <<>>
           /\ pc' = "publish"
           /\ UNCHANGED <<content, summary, newTitle, totalFailed,
                          outcome, exitCode, i, totalSuccessful>>
  /\ UNCHANGED <<env, count, articles, totalProcessed, summaryPrinted, now, store,
                 fetches, publishLog, storeBy, reqs, fnio>>

\* line 548
Image ==
  /\ pc = "image"
  /\ \E reply \in ImageReplies :
       LET g == generateImage(env.geminiKey, summary, slugify(newTitle), reply,
                              bucket, i)
       IN  /\ calls' = Append(calls, Call("generateImage", g.res,
                                          Len(slugify(newTitle))))
           /\ bucket' = g.bucket
           /\ IF g.res.ok
              THEN /\ generatedImage' = g.res.val
                   /\ pc' = "publish"
                   /\ UNCHANGED <<content, summary, newTitle, totalFailed,
                                  outcome, exitCode, i, totalSuccessful>>
              ELSE CatchArticle
  /\ UNCHANGED <<env, count, articles, totalProcessed, summaryPrinted, now, store,
                 fetches, publishLog, storeBy, reqs, fnio>>

\* lines 553-557
Output == [text |-> summary, title |-> newTitle, image |-> generatedImage]

\* how many of the three fields of an output hold a value
FieldsSet(output) ==
  (IF output.title # <<>> THEN 1 ELSE 0) + (IF output.text # 0 THEN 1 ELSE 0)
    + (IF output.image # <<>> THEN 1 ELSE 0)

\* lines 560-563
Publish ==
  /\ pc = "publish"
  /\ \E net \in NetOutcomes, up \in BOOLEAN :
       LET u == uploadToDB(Output, net, store, now, up)
       IN  /\ calls' = Append(calls, Call("uploadToDB", u.res, FieldsSet(Output)))
           /\ publishLog' = Append(publishLog, i)
           /\ store' = u.rows
           /\ storeBy' = IF Len(u.rows) > Len(store) THEN Append(storeBy, i)
                         ELSE storeBy
           /\ IF u.res.ok
              THEN /\ totalSuccessful' = totalSuccessful + 1
                   /\ outcome' = Append(outcome, "published")
                   /\ pc' = "ratelimit"
                   /\ ResetLocals
                   /\ UNCHANGED <<exitCode, i, totalFailed>>
              ELSE CatchArticle
  /\ UNCHANGED <<env, count, articles, totalProcessed, summaryPrinted, now,
                 bucket, fetches, reqs, fnio>>

\* Delay as it would be if the timer of delay() never fired
DelayNeverResolves ==
  /\ pc = "ratelimit"
  /\ i < Len(articles)
  /\ UNCHANGED vars

\* lines 572-575 and the loop increment: every article but the last waits
Delay ==
  /\ pc = "ratelimit"
  /\ i < Len(articles)
  /\ now' = now + DelayMs
  /\ i' = i + 1
  /\ pc' = "loop"
  /\ UNCHANGED <<env, count, exitCode, articles, locals, counters, summaryPrinted,
                 store, bucket, history, reqs, fnio>>

LastArticle ==
  /\ pc = "ratelimit"
  /\ i >= Len(articles)
  /\ i' = i + 1
  /\ pc' = "loop"
  /\ UNCHANGED <<env, count, exitCode, articles, locals, counters, summaryPrinted,
                 now, store, bucket, history, reqs, fnio>>

\* Summary as it would be without the exit of line 595
SummaryNoExit ==
  /\ pc = "summary"
  /\ summaryPrinted' = TRUE
  /\ pc' = "done"
  /\ exitCode' = 0
  /\ UNCHANGED <<env, count, articles, i, locals, counters, now, store, bucket,
                 history, reqs, fnio>>

\* lines 585-597
Summary ==
  /\ pc = "summary"
  /\ summaryPrinted' = TRUE
  /\ IF totalSuccessful = 0
     THEN Exit(1)
     ELSE pc' = "done" /\ exitCode' = 0
  /\ UNCHANGED <<env, count, articles, i, locals, counters, now, store, bucket,
                 history, reqs, fnio>>

Next ==
  \/ ModuleInit
  \/ FetchRSS
  \/ Scrape
  \/ CheckArticles
  \/ LoopHead
  \/ Extract
  \/ Rewrite
  \/ Title
  \/ Image
  \/ Publish
  \/ Delay
  \/ LastArticle
  \/ Summary

Spec == Init /\ [][Next]_vars

(***************************************************************************)
(* The publish-article function serving requests that overlap.             *)
(* A request being served is [req, phase, slugAt, status, success]:        *)
(* phase "received" until the handler has validated it and computed the    *)
(* slug (lines 10-47, run without a pause after the body is read),         *)
(* "inserting" while the INSERT of line 50 is awaited, "answered" after.   *)
(***************************************************************************)
tAlert == Trim(tFloodAlert)

\* the requests the model draws; body = "invalid" is a body req.json() rejects
PubRequests ==
  { [method |-> "OPTIONS", body |-> "none", title |-> <<>>, text |-> 0, image_link |-> <<>>],
    [method |-> "POST", body |-> "invalid", title |-> <<>>, text |-> 0, image_link |-> <<>>],
    [method |-> "POST", body |-> "json", title |-> <<>>, text |-> 100, image_link |-> <<>>],
    [method |-> "POST", body |-> "json", title |-> tAlert, text |-> 0, image_link |-> <<>>],
    [method |-> "POST", body |-> "json", title |-> tAlert, text |-> 100,
     image_link |-> SignedUrl(ObjectKey(slugify(tAlert)))],
    [method |-> "POST", body |-> "json", title |-> tFloodAlertBang, text |-> 100,
     image_link |-> <<>>],
    [method |-> "POST", body |-> "json", title |-> tSymbols, text |-> 100,
     image_link |-> <<>>] }

InitPub ==
  /\ env = [supabaseUrl |-> TRUE, supabaseKey |-> TRUE, geminiKey |-> TRUE]
  /\ count = 0
  /\ pc = "serving"
  /\ exitCode = -1
  /\ articles = <<>>
  /\ i = 1
  /\ content = <<>>
  /\ summary = 0
  /\ newTitle = <<>>
  /\ generatedImage = <<>>
  /\ totalProcessed = 0
  /\ totalSuccessful = 0
  /\ totalFailed = 0
  /\ summaryPrinted = FALSE
  /\ now = 0
  /\ store = <<>>
  /\ bucket = {}
  /\ fetches = <<>>
  /\ calls = <<>>
  /\ publishLog = <<>>
  /\ storeBy = <<>>
  /\ outcome = <<>>
  /\ reqs = <<>>
  /\ fnIn = <<>>
  /\ fnOut = <<>>
  /\ ui = <<>>

pubFrame == <<fnio, env, count, pc, exitCode, articles, i, locals, counters,
              summaryPrinted, bucket, fetches, calls, publishLog, outcome>>

Answer(r, status, success) ==
  [r EXCEPT !.phase = "answered", !.status = status, !.success = success]

\* a request arrives
Receive ==
  /\ Len(reqs) < MaxReqs
  /\ \E req \in PubRequests :
       reqs' = Append(reqs, [req |-> req, phase |-> "received", slugAt |-> 0,
                             status |-> 0, success |-> FALSE, dbUp |-> TRUE])
  /\ UNCHANGED <<pubFrame, now, store, storeBy>>

\* lines 10-47: preflight, body, validation, slug; Date.now() is read here
Handle(k) ==
  /\ reqs[k].phase = "received"
  /\ LET r == reqs[k]
     IN  reqs' = [reqs EXCEPT ![k] =
           IF r.req.method = "OPTIONS" THEN Answer(r, 200, FALSE)
           ELSE IF r.req.body = "invalid" THEN Answer(r, 500, FALSE)
           ELSE IF MissingFields(r.req) THEN Answer(r, 400, FALSE)
           ELSE [r EXCEPT !.phase = "inserting", !.slugAt = now]]
  /\ UNCHANGED <<pubFrame, now, store, storeBy>>

\* lines 50-84: the INSERT reaches the table, and the response follows
Insert(k) ==
  /\ reqs[k].phase = "inserting"
  /\ \E up \in BOOLEAN :
       LET r   == reqs[k]
           ins == InsertArticle(store, RowOf(r.req, r.slugAt), up)
       IN  /\ store' = ins.rows
           /\ storeBy' = IF ins.error THEN storeBy ELSE Append(storeBy, k)
           /\ reqs' = [reqs EXCEPT ![k] =
                [(IF ins.error THEN Answer(r, 500, FALSE) ELSE Answer(r, 200, TRUE))
                   EXCEPT !.dbUp = up]]
  /\ UNCHANGED <<pubFrame, now>>

\* a millisecond passes
Tick ==
  /\ now < MaxClock
  /\ now' = now + 1
  /\ UNCHANGED <<pubFrame, store, storeBy, reqs, fnio>>

NextPub ==
  \/ Receive
  \/ \E k \in 1..Len(reqs) : Handle(k)
  \/ \E k \in 1..Len(reqs) : Insert(k)
  \/ Tick

SpecPub == InitPub /\ [][NextPub]_vars

(***************************************************************************)
(* Specifications of single functions: the function named by pc is applied *)
(* to the input fnIn and its result is kept in fnOut.                      *)
(***************************************************************************)
InitFn ==
  /\ env = [supabaseUrl |-> TRUE, supabaseKey |-> TRUE, geminiKey |-> TRUE]
  /\ count = 0
  /\ exitCode = -1
  /\ articles = <<>>
  /\ i = 1
  /\ content = <<>>
  /\ summary = 0
  /\ newTitle = <<>>
  /\ generatedImage = <<>>
  /\ totalProcessed = 0
  /\ totalSuccessful = 0
  /\ totalFailed = 0
  /\ summaryPrinted = FALSE
  /\ now = 0
  /\ store = <<>>
  /\ bucket = {}
  /\ fetches = <<>>
  /\ calls = <<>>
  /\ publishLog = <<>>
  /\ storeBy = <<>>
  /\ outcome = <<>>
  /\ reqs = <<>>
  /\ fnOut = <<>>

fnFrame == <<env, count, exitCode, articles, i, locals, counters, summaryPrinted,
             now, store, bucket, history, reqs, ui>>

\* the pages handed to scrapeNDTV: selector 2 matches up to MaxScrapeElems
\* elements of any title length and href, selector 3 one good story
ScrapePages ==
  { [err |-> "none",
     sel |-> [s \in 1..NumSelectors |->
                IF s = 2 THEN els
                ELSE IF s = 3 THEN <<ListingElem(25, <<"/other">>)>> ELSE <<>>]] :
    els \in SeqsUpTo([tlen : TitleLens, href : Hrefs], MaxScrapeElems) }

InitScrape ==
  /\ InitFn
  /\ ui = <<>>
  /\ pc = "scrapeNDTV"
  /\ fnIn \in ScrapePages \cup ListingPages

CallScrapeNDTV ==
  /\ pc = "scrapeNDTV"
  /\ fnOut' = scrapeNDTV(fnIn)
  /\ pc' = "scraped"
  /\ UNCHANGED <<fnFrame, fnIn>>

SpecScrape == InitScrape /\ [][CallScrapeNDTV]_vars

\* the contents handed to rewriteWithGemini alone: none, 49, 50 and 104
\* characters
RewriteContents ==
  { <<>>, <<Block(1, MinRewriteInput - 1, FALSE)>>, <<Block(1, MinRewriteInput, FALSE)>>,
    <<Block(1, 51, FALSE), Block(2, 51, FALSE)>> }

\* the lengths of the titles handed to rewriteTitle alone
RewriteTitleLens == {0, MinTitleInput - 1, MinTitleInput, 20}

\* the replies to a title rewrite alone: also texts of 4 and of 5 characters
tFour == <<"N", "e", "w", "s">>
TitleRepliesFn ==
  TitleReplies \cup [err : {"none"}, text : {tFour, tAlert}]

InitRewrite ==
  /\ InitFn
  /\ ui = <<>>
  /\ pc = "call"
  /\ fnIn \in [fn : {"rewriteWithGemini"}, key : BOOLEAN, input : RewriteContents,
                reply : BodyReplies]
             \cup [fn : {"rewriteTitle"}, key : BOOLEAN, input : RewriteTitleLens,
                    reply : TitleRepliesFn]

CallRewriteWithGemini ==
  /\ pc = "call"
  /\ fnIn.fn = "rewriteWithGemini"
  /\ fnOut' = rewriteWithGemini(fnIn.key, fnIn.input, fnIn.reply)
  /\ pc' = "returned"
  /\ UNCHANGED <<fnFrame, fnIn>>

CallRewriteTitle ==
  /\ pc = "call"
  /\ fnIn.fn = "rewriteTitle"
  /\ fnOut' = rewriteTitle(fnIn.key, fnIn.input, fnIn.reply)
  /\ pc' = "returned"
  /\ UNCHANGED <<fnFrame, fnIn>>

NextRewrite ==
  \/ CallRewriteWithGemini
  \/ CallRewriteTitle

SpecRewrite == InitRewrite /\ [][NextRewrite]_vars

\* the pages handed to getFullArticle alone: the paragraphs 1..c of the
\* document, of which the first selector matches 1..a, the second 1..b and
\* the catch-all selector p all of them
StoryBlocks(n) == [k \in 1..n |-> Block(k, 60, FALSE)]
ExtractPages ==
  ArticlePages
    \cup { PageWith(StoryBlocks(t[1]), StoryBlocks(t[2]), StoryBlocks(t[3])) :
            t \in { u \in (0..MaxBlocks) \X (0..MaxBlocks) \X (0..MaxBlocks) :
                     u[1] <= u[2] /\ u[2] <= u[3] } }

InitExtract ==
  /\ InitFn
  /\ ui = <<>>
  /\ pc = "getFullArticle"
  /\ fnIn \in ExtractPages

CallGetFullArticle ==
  /\ pc = "getFullArticle"
  /\ fnOut' = getFullArticle(<<Origin, "/story">>, fnIn)
  /\ pc' = "extracted"
  /\ UNCHANGED <<fnFrame, fnIn>>

SpecExtract == InitExtract /\ [][CallGetFullArticle]_vars

(***************************************************************************)
(* A run of main that SIGINT or SIGTERM can end (specification SpecSig).   *)
(* The handlers of lines 611-620 are registered before main is called.     *)
(* The POST of uploadToDB is in three steps here, so that a signal can     *)
(* fall between them: the request is sent, the publish function serves it, *)
(* the answer (or the timeout) reaches uploadToDB.  reqs holds the request *)
(* that is under way: [by, res, rows, arg, phase].                         *)
(***************************************************************************)
InitSig ==
  /\ Init
  /\ env = [supabaseUrl |-> TRUE, supabaseKey |-> TRUE, geminiKey |-> TRUE]

\* lines 455-471: the fields are tested and the request leaves
SendPublish ==
  /\ pc = "publish"
  /\ \E net \in NetOutcomes, up \in BOOLEAN :
       LET u == uploadToDB(Output, net, store, now, up)
       IN  /\ reqs' = <<[by |-> i, res |-> u.res, rows |-> u.rows,
                         arg |-> FieldsSet(Output),
                         phase |-> IF u.rows = store THEN "served" ELSE "sent"]>>
           /\ publishLog' = Append(publishLog, i)
           /\ pc' = "publishing"
  /\ UNCHANGED <<env, count, exitCode, articles, i, locals, counters, summaryPrinted,
                 now, store, bucket, fetches, calls, storeBy, outcome, fnio>>

\* the publish function inserts the row of the request it received; it runs
\* on the server, whatever has become of the process that sent the request
ServePublish ==
  /\ reqs # <<>>
  /\ reqs[1].phase = "sent"
  /\ store' = reqs[1].rows
  /\ storeBy' = Append(storeBy, reqs[1].by)
  /\ reqs' = <<[reqs[1] EXCEPT !.phase = "served"]>>
  /\ UNCHANGED <<env, count, pc, exitCode, articles, i, locals, counters,
                 summaryPrinted, now, bucket, fetches, calls, publishLog, outcome,
                 fnio>>

\* lines 473-489 and 562-569: the answer or the timeout reaches uploadToDB
ReceivePublish ==
  /\ pc = "publishing"
  /\ reqs[1].phase = "served"
  /\ calls' = Append(calls, Call("uploadToDB", reqs[1].res, reqs[1].arg))
  /\ reqs' = <<>>
  /\ IF reqs[1].res.ok
     THEN /\ totalSuccessful' = totalSuccessful + 1
          /\ outcome' = Append(outcome, "published")
          /\ pc' = "ratelimit"
          /\ ResetLocals
          /\ UNCHANGED <<exitCode, i, totalFailed>>
     ELSE CatchArticle
  /\ UNCHANGED <<env, count, articles, totalProcessed, summaryPrinted, now, store,
                 bucket, fetches, publishLog, storeBy, fnio>>

\* the handler as it would be if it reported the interruption as a failure
SignalExitsNonZero ==
  /\ pc \notin {"init", "exit", "done", "signalled"}
  /\ pc' = "signalled"
  /\ exitCode' = 1
  /\ UNCHANGED <<env, count, articles, i, locals, counters, summaryPrinted, now,
                 store, bucket, history, reqs, fnio>>

\* lines 611-620: SIGINT or SIGTERM arrives while main runs; the handler
\* logs and calls process.exit(0)
Signal ==
  /\ pc \notin {"init", "exit", "done", "signalled"}
  /\ pc' = "signalled"
  /\ exitCode' = 0
  /\ UNCHANGED <<env, count, articles, i, locals, counters, summaryPrinted, now,
                 store, bucket, history, reqs, fnio>>

NextSig ==
  \/ ModuleInit
  \/ FetchRSS
  \/ Scrape
  \/ CheckArticles
  \/ LoopHead
  \/ Extract
  \/ Rewrite
  \/ Title
  \/ Image
  \/ SendPublish
  \/ ServePublish
  \/ ReceivePublish
  \/ Delay
  \/ LastArticle
  \/ Summary
  \/ Signal

SpecSig == InitSig /\ [][NextSig]_vars

(***************************************************************************)
(* Properties of a run of main (specification Spec).                       *)
(***************************************************************************)
Range(f) == { f[k] : k \in DOMAIN f }

\* the article the entries of calls belong to
CallsArticle ==
  IF pc \in {"extract", "rewrite", "title", "image", "publish", "ratelimit"}
  THEN i ELSE i - 1

Invoked(fn) == \E k \in 1..Len(calls) : calls[k].fn = fn

StageOrder ==
  <<"getFullArticle", "rewriteWithGemini", "rewriteTitle", "generateImage",
    "uploadToDB">>

\* C1: uploadToDB is called for an article only after getFullArticle,
\* rewriteWithGemini, rewriteTitle and generateImage have all returned a
\* value for that article, in this order; an article one of whose four
\* stages failed has no row in the table, and a row exists only for an
\* article uploadToDB was called for.
PublishOnlyAfterAllStages ==
  /\ Invoked("uploadToDB") =>
       /\ Len(calls) = 5
       /\ \A k \in 1..5 : calls[k].fn = StageOrder[k]
       /\ \A k \in 1..4 : calls[k].ok
  /\ (\E k \in 1..Len(calls) : k <= 4 /\ ~calls[k].ok) =>
       CallsArticle \notin Range(storeBy)
  /\ Range(storeBy) \subseteq Range(publishLog)
  /\ Len(storeBy) = Len(store)

\* C1 witness: the first article failed before uploadToDB and has no row,
\* the second went through all stages and has one
PublishAfterStagesWitness ==
  /\ Len(outcome) = 2
  /\ publishLog = <<2>>
  /\ storeBy = <<2>>
  /\ Len(calls) = 5
  /\ calls[5].ok
  /\ bucket # {}

\* C2: a failure in one article leaves the loop running: when the article
\* is not the last the process has not exited and the next article starts
\* with fresh locals and an empty call history; when the process ends after
\* the loop, every article of the list has an outcome; and the outcome of an
\* article is decided by its own five stage calls alone.
FailureIsolation ==
  /\ (pc = "ratelimit" /\ i < Len(articles)) => Running
  /\ pc = "extract" =>
       /\ calls = <<>>
       /\ Len(outcome) = i - 1
       /\ content = <<>> /\ summary = 0 /\ newTitle = <<>> /\ generatedImage = <<>>
  /\ (pc \in {"exit", "done"} /\ Len(articles) > 0) =>
       Len(outcome) = Len(articles)
  /\ (pc \in {"ratelimit", "loop", "summary", "exit", "done"} /\ calls # <<>>) =>
       /\ CallsArticle \in 1..Len(outcome)
       /\ outcome[CallsArticle] = "published" <=>
            (Len(calls) = 5 /\ \A k \in 1..5 : calls[k].ok)

\* C2 witness: the first article failed in uploadToDB, the second one was
\* published and the run ended normally
FailureIsolationWitness ==
  /\ pc = "done"
  /\ publishLog = <<1, 2>>
  /\ outcome = <<"failed", "published">>
  /\ storeBy = <<2>>

\* C3: rewriteWithGemini is never called with a content of fewer than 100
\* characters, and an article whose page yields fewer than 100 characters
\* of text goes through no other stage and is counted as failed.
ShortContentNeverRewritten ==
  /\ \A k \in 1..Len(calls) :
       calls[k].fn = "rewriteWithGemini" => calls[k].arg >= 100
  /\ (calls # <<>> /\ calls[1].arg < 100) =>
       /\ Len(calls) = 1
       /\ CallsArticle = Len(outcome)
       /\ outcome[CallsArticle] = "failed"
       /\ totalFailed >= 1

\* C3 witness: a page gave 99 characters of text and the article was skipped
ShortContentWitness ==
  /\ pc = "loop"
  /\ Len(calls) = 1
  /\ calls[1].arg = 99
  /\ outcome = <<"failed">>
  /\ totalFailed = 1

\* C4: the first source call of a run is the feed fetch; the listing page
\* is scraped after it exactly when the feed fetch returned no article, and
\* no source is called a third time.
ScrapeOnlyAfterEmptyFeed ==
  /\ Len(fetches) <= 2
  /\ fetches # <<>> => fetches[1].src = "rss"
  /\ Len(fetches) = 2 => (fetches[2].src = "scrape" /\ fetches[1].n = 0)
  /\ pc = "scrape" => (Len(fetches) = 1 /\ fetches[1].n = 0)
  /\ (fetches # <<>> /\ pc \notin {"rss", "scrape"} /\ fetches[1].n = 0) =>
       Len(fetches) = 2
  /\ pc \notin {"init", "rss"} /\ ~(pc = "exit" /\ fetches = <<>>) => fetches # <<>>

\* C4 witness: the feed gave nothing, the scrape gave articles and the loop
\* has started on them
ScrapeFallbackWitness ==
  /\ Len(fetches) = 2
  /\ fetches[1].n = 0
  /\ fetches[2].n > 0
  /\ pc = "extract"

\* C5: when the feed fetch and the scrape both returned no article, no
\* stage is ever called, nothing is counted or persisted, and the process
\* can only exit with status 1.
NoArticlesIsFatal ==
  (Len(fetches) = 2 /\ fetches[1].n = 0 /\ fetches[2].n = 0) =>
    /\ pc \in {"check", "exit"}
    /\ pc = "exit" => exitCode = 1
    /\ pc = "check" => Running
    /\ calls = <<>>
    /\ totalProcessed = 0
    /\ publishLog = <<>>
    /\ store = <<>>
    /\ bucket = {}
    /\ ~summaryPrinted

\* C5 witness: both sources came back empty and the process has exited
NoArticlesWitness ==
  /\ Len(fetches) = 2
  /\ fetches[1].n = 0
  /\ fetches[2].n = 0
  /\ pc = "exit"
  /\ exitCode = 1

\* C6: once the summary is printed with no successful article the process
\* has exited with status 1; a process that ended with every article of
\* its list failed printed the summary and exited with status 1; and
\* status 0 is reached only with a successful article.
AllFailedExitsNonZero ==
  /\ (summaryPrinted /\ totalSuccessful = 0) => (pc = "exit" /\ exitCode = 1)
  /\ (/\ pc \in {"exit", "done"}
      /\ Len(articles) > 0
      /\ Len(outcome) = Len(articles)
      /\ "published" \notin Range(outcome)) =>
       (summaryPrinted /\ exitCode = 1)
  /\ exitCode = 0 => (totalSuccessful > 0 /\ summaryPrinted)

\* C6 witness: two articles were processed, both failed, one of them in
\* uploadToDB, and the process exited with status 1 after the summary
AllFailedWitness ==
  /\ pc = "exit"
  /\ exitCode = 1
  /\ summaryPrinted
  /\ outcome = <<"failed", "failed">>
  /\ Len(articles) = 2
  /\ publishLog # <<>>

\* C7: the articles uploadToDB is called for follow the order of the list
\* with no repetition, every one is an article of the list, and articles
\* finish in list order: the outcomes recorded are those of articles
\* 1..i-1 or 1..i.
PublishInListOrder ==
  /\ \A a, b \in 1..Len(publishLog) : a < b => publishLog[a] < publishLog[b]
  /\ \A a \in 1..Len(publishLog) : publishLog[a] \in 1..Len(articles)
  /\ Len(outcome) \in {i - 1, i}
  /\ totalProcessed \in {Len(outcome), Len(outcome) + 1}
  /\ Len(outcome) <= Len(articles)

\* C7 witness: uploadToDB was called for the first and the third article,
\* the second was skipped
PublishInListOrderWitness ==
  /\ publishLog = <<1, 3>>
  /\ Len(outcome) = 3
  /\ outcome[2] = "failed"

\* C9: uploadToDB is called with a title, a text and an image URL, all
\* three set, and makes its request.
PublishCarriesThreeFields ==
  /\ pc = "publish" =>
       (newTitle # <<>> /\ Len(newTitle) >= 5 /\ summary > 0 /\ generatedImage # <<>>)
  /\ \A k \in 1..Len(calls) :
       calls[k].fn = "uploadToDB" => (calls[k].arg = 3 /\ calls[k].ext)
  /\ \A k \in 1..Len(store) :
       store[k].title # <<>> /\ store[k].content > 0 /\ store[k].image_url # <<>>

\* C9 witness: uploadToDB was called with the three fields and returned
PublishThreeFieldsWitness ==
  /\ Len(calls) = 5
  /\ calls[5].fn = "uploadToDB"
  /\ calls[5].arg = 3
  /\ calls[5].ok
  /\ Len(store) = 1

\* C10: main(count) hands its loop at most count articles and processes at
\* most count articles.
AtMostCountArticles ==
  /\ Len(articles) <= count
  /\ totalProcessed <= count

CountOf(seq, v) == Cardinality({ k \in 1..Len(seq) : seq[k] = v })

\* what the endpoint's answer was when uploadToDB counts it as a failure
PublishFailures == {"non2xx", "timeout", "nosuccess"}

PublishAnswered(why) ==
  Len(calls) = 5 /\ calls[5].fn = "uploadToDB" /\ calls[5].resp = why

\* C13: when the endpoint answers non-2xx, the request times out, or the
\* 2xx answer has no true success flag, uploadToDB throws, the article is
\* counted as failed and not as successful, and the process goes on to the
\* rate-limit step and the next article instead of exiting.
PublishFailureCounted ==
  /\ totalSuccessful = CountOf(outcome, "published")
  /\ totalFailed = CountOf(outcome, "failed")
  /\ \A why \in PublishFailures :
       PublishAnswered(why) =>
         /\ ~calls[5].ok
         /\ pc \in {"ratelimit", "loop", "summary", "exit", "done"}
         /\ Len(outcome) >= CallsArticle
         /\ outcome[CallsArticle] = "failed"
         /\ pc = "exit" => summaryPrinted
         /\ (pc = "loop" /\ i <= Len(articles)) => Running

\* C13 witness: the publish of the first of two articles timed out after the
\* row was written; the article counts as failed and the second one is next
PublishFailureWitness ==
  /\ PublishAnswered("timeout")
  /\ pc = "loop"
  /\ i = 2 /\ Len(articles) >= 2
  /\ totalFailed = 1 /\ totalSuccessful = 0
  /\ Len(store) = 1

\* what went wrong inside generateImage: the generation call failed, the
\* response had no parts, no image part or no image data, the storage upload
\* or the signed-URL call returned an error, or no URL came back
ImageFailures ==
  {"error", "noparts", "textonly", "nodata", "uploadfail", "urlfail", "nourl"}

\* C15: every failure inside generateImage is thrown to main: the call is
\* the last one of its article, the article is counted as failed, and
\* uploadToDB is not called and no row is written for it.
ImageFailureAborts ==
  \A k \in 1..Len(calls) :
    calls[k].fn = "generateImage" =>
      /\ calls[k].resp \in ImageFailures => ~calls[k].ok
      /\ ~calls[k].ok =>
           /\ k = Len(calls)
           /\ pc \in {"ratelimit", "loop", "summary", "exit", "done"}
           /\ Len(outcome) >= CallsArticle
           /\ outcome[CallsArticle] = "failed"
           /\ CallsArticle \notin Range(publishLog)
           /\ CallsArticle \notin Range(storeBy)
           /\ totalFailed = CountOf(outcome, "failed")

\* C15 witness: the image of the second article was stored but no signed URL
\* could be made; the article failed unpublished, after the first one was
\* published
ImageFailureWitness ==
  /\ Len(calls) = 4
  /\ calls[4].fn = "generateImage"
  /\ calls[4].resp = "urlfail"
  /\ pc = "ratelimit"
  /\ outcome = <<"published", "failed">>
  /\ publishLog = <<1>>
  /\ Cardinality(bucket) >= 1

ConfigComplete == env.supabaseUrl /\ env.supabaseKey /\ env.geminiKey

\* C16: when the storage URL, the storage key or the AI API key is absent,
\* the process exits with a non-zero status before the feed or the listing
\* page is fetched.
MissingConfigFatalAtStartup ==
  ~ConfigComplete =>
    /\ fetches = <<>>
    /\ pc \in {"init", "exit"}
    /\ pc = "exit" => exitCode # 0

\* the storage half of C16, which the code keeps
MissingStorageConfigFatal ==
  (~env.supabaseUrl \/ ~env.supabaseKey) =>
    /\ fetches = <<>>
    /\ pc \in {"init", "exit"}
    /\ pc = "exit" => exitCode = 1

\* a run without the AI API key ends non-zero, but only after its fetches
MissingAiKeyEndsNonZero ==
  (~env.geminiKey /\ pc \in {"exit", "done"}) =>
    exitCode = 1 /\ totalSuccessful = 0 /\ store = <<>>

InArticle == pc \in {"extract", "rewrite", "title", "image", "publish", "ratelimit"}
AfterLoop == pc \in {"summary", "exit", "done"} /\ Len(articles) > 0

\* C17: the 1500 ms delay is executed between every article and the next,
\* whatever the outcome of the earlier one, and not after the last: while
\* article i is processed i - 1 delays have passed, and after the loop one
\* less than there are articles.
DelayBetweenArticles ==
  /\ InArticle => now = DelayMs * (i - 1)
  /\ AfterLoop => now = DelayMs * (Len(articles) - 1)

\* what the code keeps of C17: at most one delay per earlier article, and
\* none after the last
DelayAtMostBetweenArticles ==
  /\ InArticle => now <= DelayMs * (i - 1)
  /\ AfterLoop => now <= DelayMs * (Len(articles) - 1)
  /\ (AfterLoop /\ CountOf(outcome, "published") = Len(articles))
       => now = DelayMs * (Len(articles) - 1)

NoRepeat(seq) == \A a, b \in 1..Len(seq) : a # b => seq[a] # seq[b]

\* C18: nothing is retried: the stage calls of one article are calls of
\* different functions, every article of the list is started once and
\* published at most once, and the feed and the listing page are fetched at
\* most once in the run.
NoRetries ==
  /\ NoRepeat([k \in 1..Len(calls) |-> calls[k].fn])
  /\ NoRepeat([k \in 1..Len(fetches) |-> fetches[k].src])
  /\ NoRepeat(publishLog)
  /\ NoRepeat(storeBy)
  /\ InArticle => totalProcessed = i
  /\ totalProcessed <= Len(articles)
  /\ Len(outcome) <= totalProcessed

\* C18 witness: the feed gave nothing and the listing page was fetched; the
\* rewrite request of the second article was sent and failed, and the
\* article is over after two calls
NoRetriesWitness ==
  /\ Len(fetches) = 2
  /\ pc = "ratelimit"
  /\ i = 2
  /\ Len(calls) = 2
  /\ calls[2].fn = "rewriteWithGemini"
  /\ ~calls[2].ok /\ calls[2].ext
  /\ outcome[2] = "failed"

\* the number of stages that have returned a value when main stands at pc
StagesDone(at) ==
  CASE at = "extract" -> 0 [] at = "rewrite" -> 1 [] at = "title" -> 2
    [] at = "image" -> 3 [] at = "publish" -> 4 [] OTHER -> 5

\* C19: the stages of an article run in the order extract, rewrite, title,
\* image, publish, each one once and only after the one before it returned
\* a value; a failed stage is the last stage of its article; and an article
\* is started only when every article before it is published or failed.
ArticleStateMachine ==
  /\ Len(calls) <= Len(StageOrder)
  /\ \A k \in 1..Len(calls) : calls[k].fn = StageOrder[k]
  /\ \A k \in 1..(Len(calls) - 1) : calls[k].ok
  /\ (InArticle /\ pc # "ratelimit") =>
       /\ Len(calls) = StagesDone(pc)
       /\ \A k \in 1..Len(calls) : calls[k].ok
       /\ Len(outcome) = i - 1
  /\ pc = "ratelimit" => Len(outcome) = i
  /\ \A k \in 1..Len(outcome) : outcome[k] \in {"published", "failed"}
  /\ (calls # <<>> /\ ~InArticle) => Len(outcome) >= CallsArticle
  /\ (calls # <<>> /\ (~InArticle \/ pc = "ratelimit")) =>
       (outcome[CallsArticle] = "published"
          <=> (Len(calls) = 5 /\ calls[5].ok))

\* C19 witness: the first article went through the five stages and is
\* published; the second has its content and its summary and is at the
\* title rewrite
ArticleStateMachineWitness ==
  /\ pc = "title"
  /\ i = 2
  /\ outcome = <<"published">>
  /\ Len(calls) = 2
  /\ summary > 0

\* main stands between two iterations, or at or after the summary
AtBoundary ==
  \/ pc \in {"loop", "ratelimit", "summary"}
  \/ pc \in {"exit", "done"} /\ summaryPrinted

\* C24: between two iterations and at the summary the three counters add
\* up, every article gone through is counted once, as successful or as
\* failed, the successful ones are those whose publish call returned the
\* confirmation, and at the summary every article of the list is counted.
CountersAddUp ==
  AtBoundary =>
    /\ totalProcessed = totalSuccessful + totalFailed
    /\ Len(outcome) = totalProcessed
    /\ totalSuccessful = CountOf(outcome, "published")
    /\ totalFailed = CountOf(outcome, "failed")
    /\ \A a \in 1..Len(outcome) :
         outcome[a] = "published" => a \in Range(publishLog) /\ a \in Range(storeBy)
    /\ (calls # <<>> /\ Len(outcome) >= CallsArticle) =>
         (outcome[CallsArticle] = "published"
            <=> (Len(calls) = 5 /\ calls[5].fn = "uploadToDB" /\ calls[5].ok))
    /\ pc \in {"summary", "exit", "done"} => totalProcessed = Len(articles)

\* C24 witness: at the summary of a run over three articles one is counted
\* as successful and two as failed, one of them skipped for its short content
CountersAddUpWitness ==
  /\ pc = "summary"
  /\ totalProcessed = 3
  /\ totalSuccessful = 1
  /\ totalFailed = 2
  /\ Len(calls) = 1
  /\ publishLog = <<1, 2>>

\* the object the image_url of a row points to
KeyOfRow(row) == Tail(row.image_url)

\* C25: the images of two published articles are stored under different
\* keys, and the object a published row points to is the image of the
\* article of that row: no later upload has replaced it.
ImageKeysDistinct ==
  /\ \A a, b \in 1..Len(store) :
       a # b => KeyOfRow(store[a]) # KeyOfRow(store[b])
  /\ \A a \in 1..Len(store) :
       store[a].image_url # <<>> =>
         [key |-> KeyOfRow(store[a]), by |-> storeBy[a]] \in bucket

\* every object of the bucket is stored under slugify(title).png and holds
\* the image of the last article uploaded under that key
ImageKeyIsTitleSlug ==
  \A a \in 1..Len(store) :
    /\ KeyOfRow(store[a]) = ObjectKey(slugify(store[a].title))
    /\ \E o \in bucket : o.key = KeyOfRow(store[a]) /\ o.by >= storeBy[a]

FailedArticles == { a \in 1..Len(outcome) : outcome[a] = "failed" }

\* C26: an article that ended in Failed has left nothing behind: no row of
\* the table and no object of the bucket is of a failed article.
NoArtifactOfFailed ==
  \A a \in FailedArticles :
    /\ a \notin Range(storeBy)
    /\ \A o \in bucket : o.by # a

\* what the code keeps of C26: an article that failed before its image was
\* uploaded has left nothing behind
NoArtifactBeforeImage ==
  (pc = "ratelimit" /\ outcome[i] = "failed" /\ Len(calls) <= 3) =>
    /\ i \notin Range(storeBy)
    /\ \A o \in bucket : o.by # i

(***************************************************************************)
(* Termination of a run of main (specification SpecLive).                  *)
(* Every step of main is an await of a call that returns or times out, or  *)
(* synchronous code: a step that can be taken is taken (weak fairness).    *)
(***************************************************************************)
\* the feeds and listing pages of at most MaxLiveArticles entries
LiveFeeds == { f \in Feeds : Len(f.items) <= MaxLiveArticles }
LivePages ==
  [err : ListingErrors, sel : {<<>>}]
    \cup { ListingPage(n, 0) : n \in 0..MaxLiveArticles }

FetchRSSLive == FetchRSSOf(LiveFeeds)
ScrapeLive == ScrapeOf(LivePages)

NextLive ==
  \/ ModuleInit
  \/ FetchRSSLive
  \/ ScrapeLive
  \/ CheckArticles
  \/ LoopHead
  \/ Extract
  \/ Rewrite
  \/ Title
  \/ Image
  \/ Publish
  \/ Delay
  \/ LastArticle
  \/ Summary

\* main is asked for as many articles as the longest list
InitLive == Init /\ count = MaxLiveArticles

SpecLive == InitLive /\ [][NextLive]_vars /\ WF_vars(NextLive)

Terminated == pc \in {"exit", "done"}

\* C21: a run ends: it reaches the end of main after the summary, or an
\* exit, and by then every article of the list is published or failed.
RunTerminates ==
  <>(Terminated /\ Len(outcome) = Len(articles))

\* C21 witness: a run over two articles has ended after the summary with a
\* published and a failed article
RunTerminatesWitness ==
  /\ pc = "done"
  /\ summaryPrinted
  /\ Len(articles) = 2
  /\ Len(outcome) = 2
  /\ totalFailed = 1 /\ totalSuccessful = 1

(***************************************************************************)
(* Properties of the publish function (specification SpecPub).             *)
(***************************************************************************)
\* C8: whatever requests were served and however they overlapped, no two
\* rows of the table have the same slug and every row has a slug.
SlugsUnique ==
  /\ \A a, b \in 1..Len(store) : a # b => store[a].slug # store[b].slug
  /\ \A a \in 1..Len(store) : store[a].slug # <<>>
  /\ \A a \in 1..Len(store) :
       store[a].slug = MakeSlug(store[a].title, reqs[storeBy[a]].slugAt)

\* C8 witness: two requests with titles of the same base slug were handled
\* in the same millisecond; one has its row, the other was refused
SlugsUniqueWitness ==
  /\ Len(store) = 1
  /\ Len(reqs) = 2
  /\ reqs[1].phase = "answered" /\ reqs[2].phase = "answered"
  /\ reqs[1].req.title # reqs[2].req.title
  /\ ~MissingFields(reqs[1].req) /\ ~MissingFields(reqs[2].req)
  /\ MakeSlug(reqs[1].req.title, reqs[1].slugAt)
       = MakeSlug(reqs[2].req.title, reqs[2].slugAt)
  /\ {reqs[1].status, reqs[2].status} = {200, 500}

\* the rows the request reqs[k] inserted
RowsOf(k) == { a \in 1..Len(store) : storeBy[a] = k }

Answered(k) == reqs[k].phase = "answered"

\* what C12 says of the answered request k, for the requests in Checked
EndpointAnswer(k) ==
  /\ (reqs[k].status = 200 /\ reqs[k].success) <=> Cardinality(RowsOf(k)) = 1
  /\ (reqs[k].req.method # "OPTIONS" /\ MissingFields(reqs[k].req))
       => reqs[k].status = 400
  /\ (reqs[k].req.method # "OPTIONS" /\ ~MissingFields(reqs[k].req)
        /\ RowsOf(k) = {}) => reqs[k].status = 500
  /\ (reqs[k].status \in {400, 500} \/ reqs[k].req.method = "OPTIONS")
       => RowsOf(k) = {}
  /\ Cardinality(RowsOf(k)) <= 1

\* C12: the endpoint answers 200 with success = true exactly when it
\* inserted one row for the request; a request whose title or text is
\* missing or empty is answered 400 and a failed insert 500; a request
\* answered 400 or 500, and a preflight, leave no row in the table.
EndpointContract ==
  \A k \in 1..Len(reqs) : Answered(k) => EndpointAnswer(k)

\* C12 for the requests whose body req.json() could parse, which holds
EndpointContractParsed ==
  \A k \in 1..Len(reqs) :
    (Answered(k) /\ reqs[k].req.body # "invalid") => EndpointAnswer(k)

\* a request with each of the four answers has been served
EndpointAnswersSeen ==
  /\ Len(reqs) = 2
  /\ Answered(1) /\ Answered(2)
  /\ reqs[1].status = 400 /\ reqs[2].status = 200 /\ reqs[2].success
  /\ Len(store) = 1

\* C27: a request with a title and a text, served while the database is
\* available, is answered 200 with success and has its row in the table,
\* however the requests overlap.
AvailableStorePersistsAll ==
  \A k \in 1..Len(reqs) :
    (Answered(k) /\ reqs[k].req.method = "POST" /\ ~MissingFields(reqs[k].req)
      /\ reqs[k].dbUp)
      => (reqs[k].status = 200 /\ reqs[k].success /\ Cardinality(RowsOf(k)) = 1)

\* what the code keeps of C27: requests whose slugs differ are all persisted
DistinctSlugsPersistAll ==
  \A k \in 1..Len(reqs) :
    (Answered(k) /\ reqs[k].req.method = "POST" /\ ~MissingFields(reqs[k].req)
      /\ reqs[k].dbUp
      /\ \A j \in 1..Len(reqs) :
           (j # k /\ ~MissingFields(reqs[j].req)) =>
             MakeSlug(reqs[j].req.title, reqs[j].slugAt)
               # MakeSlug(reqs[k].req.title, reqs[k].slugAt))
      => (reqs[k].status = 200 /\ reqs[k].success /\ Cardinality(RowsOf(k)) = 1)

(***************************************************************************)
(* Properties of the signal handlers (specification SpecSig).              *)
(***************************************************************************)
\* the state of the process itself
processState == <<env, count, pc, exitCode, articles, i, locals, counters,
                  summaryPrinted, now, fetches, calls, publishLog, outcome>>

SignalArrives == pc # "signalled" /\ pc' = "signalled"

IsPrefix(s, t) == Len(s) <= Len(t) /\ SubSeq(t, 1, Len(s)) = s

\* C20: a signal, whenever it arrives, ends the process with status 0 and
\* without cleanup: the step of the signal changes neither the table nor the
\* bucket, and from then on nothing changes any more: the process takes no
\* step, the rows stay, and no row is added for the article that was under
\* way.
SignalStopsRun ==
  [][ /\ SignalArrives => exitCode' = 0 /\ UNCHANGED <<store, storeBy, bucket>>
      /\ pc = "signalled" => UNCHANGED <<processState, store, storeBy, bucket>>
    ]_vars

\* C20 as the code has it: a signal ends the process with status 0 and
\* without cleanup; from then on the process takes no step and no row or
\* stored image is removed or changed; the only row that can still appear
\* is the one of the publish request of the article under way, when the
\* request had left before the signal.
SignalStopsProcess ==
  [][ /\ SignalArrives => exitCode' = 0 /\ UNCHANGED <<store, storeBy, bucket>>
      /\ pc = "signalled" =>
           /\ UNCHANGED processState
           /\ bucket \subseteq bucket'
           /\ \/ UNCHANGED <<store, storeBy>>
              \/ /\ reqs # <<>> /\ reqs[1].phase = "sent"
                 /\ reqs[1].by = i
                 /\ i \in Range(publishLog)
                 /\ IsPrefix(store, store') /\ Len(store') = Len(store) + 1
                 /\ storeBy' = Append(storeBy, i)
    ]_vars

\* C20 witness: the signal came while the publish request of the second
\* article was on its way; the process ended with status 0 having counted
\* one article, and the table has the rows of both
SignalWitness ==
  /\ pc = "signalled"
  /\ exitCode = 0
  /\ i = 2
  /\ outcome = <<"published">>
  /\ totalSuccessful = 1
  /\ storeBy = <<1, 2>>

\* a signal during the delay between two articles
SignalDuringDelaySeen ==
  /\ pc = "signalled"
  /\ exitCode = 0
  /\ calls # <<>>
  /\ Len(outcome) = i
  /\ i < Len(articles)

(***************************************************************************)
(* Properties of the rewriters (specification SpecRewrite).                *)
(***************************************************************************)
HasValue(res) == res.ok /\ "val" \in DOMAIN res

\* the length of the input and of the text field of the reply (0: no text)
InputLen ==
  IF fnIn.fn = "rewriteWithGemini" THEN StrLen(fnIn.input) ELSE fnIn.input
ReplyLen ==
  IF fnIn.reply.err # "none" THEN 0
  ELSE IF fnIn.fn = "rewriteWithGemini" THEN fnIn.reply.text
       ELSE Len(fnIn.reply.text)
MinInputOf(fn) == IF fn = "rewriteWithGemini" THEN 50 ELSE 5
MinOutputOf(fn) == IF fn = "rewriteWithGemini" THEN 100 ELSE 5

\* C14: rewriteWithGemini and rewriteTitle throw, and return no value, when
\* the API key is absent, when the input is shorter than 50 (body) or 5
\* (title) characters, and when the reply has no text or a text shorter than
\* 100 (body) or 5 (title) characters; with no key or a short input they
\* throw before the request is sent.
RewritersThrow ==
  pc = "returned" =>
    /\ (~fnIn.key \/ InputLen < MinInputOf(fnIn.fn)) =>
         ~fnOut.ok /\ ~fnOut.called /\ ~HasValue(fnOut)
    /\ ReplyLen < MinOutputOf(fnIn.fn) => ~fnOut.ok /\ ~HasValue(fnOut)
    /\ fnOut.ok => HasValue(fnOut) /\ fnOut.called

\* C14 witness: the body rewriter, with a key, was handed 49 characters and
\* threw without a request, although a good reply was waiting
RewritersThrowWitness ==
  /\ pc = "returned"
  /\ fnIn.fn = "rewriteWithGemini"
  /\ fnIn.key
  /\ InputLen = 49
  /\ ReplyLen = 100
  /\ ~fnOut.ok /\ ~fnOut.called

\* each of the other cases of C14 happens, for the title rewriter too
RewritersCasesSeen ==
  /\ pc = "returned"
  /\ fnIn.fn = "rewriteTitle"
  /\ fnIn.key /\ InputLen = 5 /\ ReplyLen = 4
  /\ ~fnOut.ok /\ fnOut.called

(***************************************************************************)
(* Properties of scrapeNDTV (specification SpecScrape).                    *)
(***************************************************************************)
\* an absolute http(s) URL: scheme and host, then nothing or a path
AbsoluteUrl(link) ==
  /\ link # <<>>
  /\ link[1] \in {Origin, OtherOrigin}
  /\ \A k \in 2..Len(link) : link[k] \in {"/story", "/other", "/nav"}

\* C11: every entry of every list scrapeNDTV returns has a title longer
\* than 10 characters and a link that is an absolute URL.
ScrapedEntriesValid ==
  pc = "scraped" =>
    \A k \in 1..Len(fnOut) :
      /\ fnOut[k].title > MinScrapeTitle
      /\ AbsoluteUrl(fnOut[k].link)

\* the title half of C11 alone, which the code keeps
ScrapedTitlesLong ==
  pc = "scraped" => \A k \in 1..Len(fnOut) : fnOut[k].title > MinScrapeTitle

\* an element that makes a valid entry: a title of more than 10 characters
\* and a link
ValidElem(el) == el.tlen > 10 /\ el.href # <<>>
ValidOf(s) == SelectSeq(fnIn.sel[s], ValidElem)
YieldingSelectors ==
  IF fnIn.err # "none" THEN {}
  ELSE { s \in 1..NumSelectors : ValidOf(s) # <<>> }
FirstYielding ==
  CHOOSE s \in YieldingSelectors : \A t \in YieldingSelectors : s <= t

\* C22: scrapeNDTV returns the valid entries of the first selector, in
\* priority order, that has any, the first five of them in document order
\* and nothing else; it returns the empty list exactly when the page could
\* not be fetched or no selector has a valid entry.
ScrapedFromFirstSelector ==
  pc = "scraped" =>
    IF YieldingSelectors = {} THEN fnOut = <<>>
    ELSE LET v == ValidOf(FirstYielding)
         IN  /\ Len(fnOut) = (IF Len(v) < 5 THEN Len(v) ELSE 5)
             /\ \A k \in 1..Len(fnOut) :
                  /\ fnOut[k].title = v[k].tlen
                  /\ fnOut[k].link \in {v[k].href, <<Origin>> \o v[k].href}

\* C22 witness: the first selector matches an element that is not valid, the
\* second six stories and the third one; the five first stories of the
\* second are returned
ScrapedFromFirstSelectorWitness ==
  /\ pc = "scraped"
  /\ fnIn.err = "none"
  /\ Len(fnIn.sel[1]) = 1
  /\ Len(ValidOf(2)) = 6
  /\ Len(ValidOf(3)) = 1
  /\ Len(fnOut) = 5
  /\ fnOut[5].link = <<PathTok(5)>> \/ fnOut[5].link = <<Origin, PathTok(5)>>

(***************************************************************************)
(* Properties of getFullArticle (specification SpecExtract).               *)
(***************************************************************************)
\* a text block that qualifies: more than 50 characters, no copyright notice
QualifyingBlock(b) == b.len > 50 /\ ~b.boiler
QualifyingOf(s) == SelectSeq(fnIn.sel[s], QualifyingBlock)
AcceptableSelectors ==
  IF fnIn.err # "none" THEN {}
  ELSE { s \in 1..NumContentSelectors : Len(QualifyingOf(s)) > 3 }
FirstAcceptable ==
  CHOOSE s \in AcceptableSelectors : \A t \in AcceptableSelectors : s <= t

\* C23: the body getFullArticle returns holds no text block twice, and when
\* a selector by itself matches more than 3 qualifying blocks the body
\* consists of blocks of the first such selector only.
ExtractedFromOneSelector ==
  (pc = "extracted" /\ fnOut # <<>>) =>
    /\ \A a, b \in 1..Len(fnOut) : a # b => fnOut[a].id # fnOut[b].id
    /\ AcceptableSelectors # {} =>
         /\ Len(fnOut) <= Len(QualifyingOf(FirstAcceptable))
         /\ \A k \in 1..Len(fnOut) : fnOut[k] = QualifyingOf(FirstAcceptable)[k]

\* what the code does instead: the body is the blocks of all selectors tried,
\* one after the other, up to the first 8
ExtractedAccumulates ==
  (pc = "extracted" /\ fnOut # <<>>) =>
    \E n \in 1..NumContentSelectors :
      LET all[s \in 0..n] ==
            IF s = 0 THEN <<>> ELSE all[s - 1] \o QualifyingOf(s)
      IN  fnOut = SubSeq(all[n], 1, IF Len(all[n]) < 8 THEN Len(all[n]) ELSE 8)

(***************************************************************************)
(* The reader's list page, src/src/pages/Index.tsx (the component of lines *)
(* 23-827).  ui holds the component's state and refs; the table is the     *)
(* rows 1..ui.total in published_at-descending order, row k having id k.   *)
(* A handler and the render that follows it are one step; the cleanup of   *)
(* the scroll-listener effect, which React runs after that render when     *)
(* handleScroll was re-created, is a step of its own.  ui.refreshed and     *)
(* ui.dropped are history: handleRefresh ran; that cleanup cleared a       *)
(* pending reveal timer.                                                   *)
(***************************************************************************)
ARTICLES_PER_PAGE == 16
batchSize == 4
MaxRows == 33       \* the rows of the table
MaxPage == 3        \* page stays at or below this
MaxInFlight == 2    \* the queries in flight at one time

\* .range(from, to) over the ordered table: the rows from..to, 0-based
RangeOf(total, from, to) ==
  LET last == IF to + 1 < total THEN to + 1 ELSE total
  IN  [k \in 1..(IF from >= total THEN 0 ELSE last - from) |-> from + k]

\* lines 118-120: the fetched rows whose id is not in prev
UniqueNew(prev, new) == SelectSeq(new, LAMBDA x : x \notin Range(prev))

\* lines 48-77: a non-empty list replaces the pending reveal timer
revealArticles(u, newArticles) ==
  IF newArticles = <<>> THEN u
  ELSE [u EXCEPT !.timer = <<[list |-> newArticles, currentBatch |-> 0]>>]

\* lines 79-102: fetchArticles up to its await
fetchArticles(u, pageNum, append) ==
  IF u.isLoadingRef THEN u
  ELSE [u EXCEPT !.isLoadingRef = TRUE,
                 !.loading = IF append THEN @ ELSE TRUE,
                 !.displayedArticles = IF append THEN @ ELSE <<>>,
                 !.loadingMore = IF append THEN TRUE ELSE @,
                 !.inflight = Append(@, [pageNum |-> pageNum, append |-> append,
                                         articles |-> u.articles])]

\* lines 103-160: fetchArticles from the answer of its query on
fetchSettled(u, k, ok) ==
  LET f == u.inflight[k]
      rest == SubSeq(u.inflight, 1, k - 1) \o SubSeq(u.inflight, k + 1, Len(u.inflight))
      from == f.pageNum * ARTICLES_PER_PAGE
      to == from + ARTICLES_PER_PAGE - 1
      newArticles == RangeOf(u.total, from, to)
      uniqueNewArticles == UniqueNew(u.articles, newArticles)
      shown ==
        IF f.append
        THEN revealArticles([u EXCEPT !.articles = @ \o uniqueNewArticles],
                            uniqueNewArticles)
        ELSE revealArticles([u EXCEPT !.articles = newArticles, !.page = 0],
                            newArticles)
      totalLoaded ==
        IF f.append THEN Len(f.articles) + Len(UniqueNew(f.articles, newArticles))
        ELSE Len(newArticles)
      hasMoreArticles ==
        IF u.total # 0 THEN totalLoaded < u.total
        ELSE Len(newArticles) = ARTICLES_PER_PAGE
      answered == IF ok THEN [shown EXCEPT !.hasMore = hasMoreArticles] ELSE u
  IN  [answered EXCEPT !.loading = FALSE, !.loadingMore = FALSE,
                       !.isLoadingRef = FALSE, !.inflight = rest]

\* lines 274-284
handleRefresh(u) ==
  fetchArticles([u EXCEPT !.articles = <<>>, !.displayedArticles = <<>>,
                          !.page = 0, !.hasMore = TRUE, !.isLoadingRef = FALSE,
                          !.timer = <<>>, !.refreshed = TRUE], 0, FALSE)

\* the dependencies of handleScroll (line 194), search excepted
ScrollDeps(u) == <<u.loadingMore, u.hasMore, u.page, u.loading>>

\* the render after a handler: a re-created handleScroll makes the effect of
\* lines 248-259 run its cleanup
Rendered(u, v) == [v EXCEPT !.cleanup = @ \/ ScrollDeps(u) # ScrollDeps(v)]

uiFrame == <<env, count, pc, exitCode, articles, i, locals, counters,
             summaryPrinted, now, store, bucket, history, reqs, fnIn, fnOut>>

InitUI ==
  /\ InitFn
  /\ pc = "list"
  /\ fnIn = <<>>
  /\ ui \in [total : 0..MaxRows, mounted : {FALSE}, articles : {<<>>},
             displayedArticles : {<<>>}, page : {0}, hasMore : {TRUE},
             loading : {TRUE}, loadingMore : {FALSE}, isLoadingRef : {FALSE},
             inflight : {<<>>}, timer : {<<>>}, cleanup : {FALSE},
             refreshed : {FALSE}, dropped : {FALSE}]

\* lines 261-268: the effect of the first render
Mount ==
  /\ ~ui.mounted
  /\ ui' = Rendered(ui, fetchArticles([ui EXCEPT !.mounted = TRUE], 0, FALSE))
  /\ UNCHANGED uiFrame

\* lines 176-182 and 197-203: the test of both load-more triggers
CanLoadMore(u) ==
  ~u.isLoadingRef /\ ~u.loadingMore /\ u.hasMore /\ ~u.loading

loadMore(u) == fetchArticles([u EXCEPT !.page = u.page + 1], u.page + 1, TRUE)

\* lines 163-194: a scroll near the bottom
ScrollLoad ==
  /\ ui.mounted
  /\ CanLoadMore(ui)
  /\ ui.page < MaxPage
  /\ Len(ui.inflight) < MaxInFlight
  /\ ui' = Rendered(ui, loadMore(ui))
  /\ UNCHANGED uiFrame

\* lines 196-218, 221-245: the observed element (lines 729-731, rendered
\* with the list) comes into view
IntersectLoad ==
  /\ ui.mounted
  /\ ui.displayedArticles # <<>>
  /\ CanLoadMore(ui)
  /\ ui.page < MaxPage
  /\ Len(ui.inflight) < MaxInFlight
  /\ ui' = Rendered(ui, loadMore(ui))
  /\ UNCHANGED uiFrame

\* lines 634-642: the Refresh button, disabled while loading
Refresh ==
  /\ ui.mounted
  /\ ~ui.loading
  /\ Len(ui.inflight) < MaxInFlight
  /\ ui' = Rendered(ui, handleRefresh(ui))
  /\ UNCHANGED uiFrame

\* lines 746-762: the Start Over button at the end of the list
StartOver ==
  /\ ui.mounted
  /\ ~ui.loading
  /\ ~ui.hasMore
  /\ ui.displayedArticles # <<>>
  /\ Len(ui.inflight) < MaxInFlight
  /\ ui' = Rendered(ui, handleRefresh(ui))
  /\ UNCHANGED uiFrame

\* the query of a fetchArticles call is answered, with rows or with an error
FetchReturns ==
  /\ \E k \in 1..Len(ui.inflight), ok \in BOOLEAN :
       ui' = Rendered(ui, fetchSettled(ui, k, ok))
  /\ UNCHANGED uiFrame

\* lines 60-73: the reveal timer fires
RevealBatch ==
  /\ ui.timer # <<>>
  /\ LET t == ui.timer[1]
         start == t.currentBatch * batchSize
         end == IF start + batchSize < Len(t.list) THEN start + batchSize
                ELSE Len(t.list)
     IN  ui' = [ui EXCEPT !.displayedArticles = @ \o SubSeq(t.list, start + 1, end),
                          !.timer = IF end < Len(t.list)
                                    THEN <<[t EXCEPT !.currentBatch = @ + 1]>>
                                    ELSE <<>>]
  /\ UNCHANGED uiFrame

\* lines 250-258: the cleanup of the scroll-listener effect clears the timer
CleanupScrollEffect ==
  /\ ui.cleanup
  /\ ui' = [ui EXCEPT !.timer = <<>>, !.cleanup = FALSE,
                       !.dropped = @ \/ ui.timer # <<>>]
  /\ UNCHANGED uiFrame

NextUI ==
  \/ Mount
  \/ ScrollLoad
  \/ IntersectLoad
  \/ Refresh
  \/ StartOver
  \/ FetchReturns
  \/ RevealBatch
  \/ CleanupScrollEffect

SpecUI == InitUI /\ [][NextUI]_vars

(***************************************************************************)
(* Properties of the list page                                             *)
(***************************************************************************)
\* C28: at most one fetchArticles query is in flight at any time.
OneFetchInFlight == pc = "list" => Len(ui.inflight) <= 1

\* what holds instead: a second query is only ever started by a refresh
SecondFetchByRefresh ==
  (pc = "list" /\ Len(ui.inflight) > 1) => ui.refreshed

NoDuplicateIds(s) == \A a, b \in 1..Len(s) : a # b => s[a] # s[b]
ContiguousPrefix(s) == \A k \in 1..Len(s) : s[k] = k

\* C29: with no refresh and the first page loaded, after any load-more
\* operations, failed ones included, the articles list has no duplicate ids
\* and is a contiguous prefix of the table's published_at-descending order.
LoadedIsPrefix ==
  (pc = "list" /\ ~ui.refreshed /\ ui.articles # <<>> /\ ui.articles[1] = 1) =>
    NoDuplicateIds(ui.articles) /\ ContiguousPrefix(ui.articles)

\* what the code keeps without a refresh: the ids are distinct and in the
\* table's order
LoadedIsOrdered ==
  (pc = "list" /\ ~ui.refreshed) =>
    /\ NoDuplicateIds(ui.articles)
    /\ \A a, b \in 1..Len(ui.articles) : a < b => ui.articles[a] < ui.articles[b]

\* nothing is pending: no query, no reveal timer, no effect cleanup
Settled == ui.mounted /\ ui.inflight = <<>> /\ ui.timer = <<>> /\ ~ui.cleanup

DisplayedIsSublist ==
  (pc = "list" /\ ~ui.refreshed) =>
    /\ NoDuplicateIds(ui.displayedArticles)
    /\ Range(ui.displayedArticles) \subseteq Range(ui.articles)
    /\ \A a, b \in 1..Len(ui.displayedArticles) :
         a < b => ui.displayedArticles[a] < ui.displayedArticles[b]

=============================================================================
